---- MODULE Spec2Model ----
(***************************************************************************)
(* Model of the Metrika Score API (src/app): the job lifecycle run_task    *)
(* drives over the tasks/results store, the export polling of              *)
(* calculate_level4_visits, and the request handlers that read the store   *)
(* while a job runs (result retrieval, bulk conversion upload).            *)
(*                                                                         *)
(* Store calls are atomic: a call either takes effect and returns, or      *)
(* raises and leaves the store unchanged.  Every await of the handlers and *)
(* of run_task is a point where another coroutine may run, so each store   *)
(* or provider call is one step.                                           *)
(***************************************************************************)
EXTENDS Integers, Sequences, FiniteSets, TLC

\* ------------------------------------------------------------------ bounds
MaxTasks == 2      \* job records that may be created
MaxRows == 2       \* visits a day's export may hold
MaxLimit == 2      \* page sizes a client asks for (the code allows 1..1000)
MaxOffset == 1     \* page offsets a client asks for
MaxUploads == 2    \* conversion payloads the provider is sent
MaxBulk == 1       \* of them, bulk submissions of job results
MaxWebhooks == 3   \* webhooks registered in the store
MaxBatches == 2    \* conversion batches the webhooks are sent
MaxEvents == 3     \* watch ids a visit lists
MaxQueries == 2    \* status queries for a batch that overlap

\* -------------------------------------------------------- program constants
max_attempts == 10 \* check_conversion_upload_status: attempts of the poller

\* ------------------------------------------------------------- vocabulary
NULL == "null"                       \* Python's None
NoTask == [status |-> "absent"]                  \* no row in table tasks
NoResult == [present |-> FALSE, rows |-> <<>>]   \* no row in table results
Stored(r) == [present |-> TRUE, rows |-> r]      \* a row holding result list r
Now == "2025-07-01T12:00:00"         \* datetime.utcnow().isoformat()

TaskIds == 1..MaxTasks
UploadIds == 1..MaxUploads
WebhookIds == 1..MaxWebhooks
BatchIds == 1..MaxBatches
QueryIds == 1..MaxQueries
Sources == {"visits", "hits"}
Terminal == {"done", "failed"}

\* The statuses the provider reports for an export (log request).
ExportStatuses ==
    {"created", "processing", "processed", "processed_with_errors",
     "awaiting_retry", "canceled"}

\* A text is the sequence of its parts (a date, a time, and the characters
\* between and after them).  The dateTime of a visit as the provider's export
\* writes it: "2025-07-01 12:00:00".
MetrikaTime == <<"2025-07-01", " ", "12:00:00">>

\* A visit row of a result: {visitId, clientId, dateTime, visitDuration}.
Visit(i) ==
    [visitId |-> i, clientId |-> <<"client", i>>,
     dateTime |-> MetrikaTime, visitDuration |-> 200]

\* The result lists a day of at most MaxRows visits can yield: the tier-4+
\* visits in input order (any subset of the day's visits, order kept).
RECURSIVE Ascending(_)
Ascending(s) ==
    IF Len(s) < 2 THEN TRUE
    ELSE s[1].visitId < s[2].visitId /\ Ascending(Tail(s))

ResultLists ==
    {s \in UNION {[1..n -> {Visit(i) : i \in 1..MaxRows}] : n \in 0..MaxRows} :
        Ascending(s)}

VARIABLES
    tasks,      \* table tasks: task id -> job record, or NoTask
    results,    \* table results: task id -> result list, or NoResult
    run,        \* run_task per task: position, caught exception, local result
    exports,    \* provider side: the two exports (log requests) of each run
    http,       \* the client request in flight, or the last response
    uploads,    \* table conversion_uploads, in creation order
    metrika,    \* provider side: the conversion payloads it accepted
    pollers,    \* upload ids whose background status poller was scheduled
    poll,       \* check_conversion_upload_status per upload: position, attempt
    webhooks,   \* table webhooks: webhook id -> row, or NoWebhook
    webhook_batches,     \* table webhook_batches, in creation order
    webhook_conversions, \* table webhook_conversions: the items of each batch
    process,    \* process_webhook_batch per batch: position, locals
    status_calls,        \* provider side: the uploads whose status was asked for
    queries,    \* status queries of clients that overlap: the locals of each
    uploadings, \* provider side: the status of each upload of a webhook batch
    calc,       \* calculate_level4_visits per task: the day's data, the decisions
    fmt         \* a call of format_conversion_csv: its arguments, its outcome

\* The tables and background work of the webhook endpoints.
hookvars ==
    <<webhooks, webhook_batches, webhook_conversions, process, status_calls, queries,
      uploadings>>

vars ==
    <<tasks, results, run, exports, http, uploads, metrika, pollers, poll,
      webhooks, webhook_batches, webhook_conversions, process, status_calls, queries,
      uploadings, calc, fmt>>

\* ------------------------------------------------------------------ store
\* Mutant: the row is inserted as already running.
create_task_as_running(params) ==
    [status |-> "running", progress |-> 10, message |-> "",
     started_at |-> Now, finished_at |-> NULL, error |-> NULL,
     params |-> params]

\* create_task: the row inserted for a new job.
create_task(params) ==
    [status |-> "pending", progress |-> 0, message |-> "",
     started_at |-> Now, finished_at |-> NULL, error |-> NULL,
     params |-> params]

\* Mutant: the UPDATE has no WHERE clause and writes every row.
update_task_status_every_row(tk, task_id, status, progress, message, error, finished_at) ==
    [t \in DOMAIN tk |->
        IF tk[t] = NoTask THEN tk[t]
        ELSE [tk[t] EXCEPT !.status = status, !.progress = progress,
                           !.message = message, !.error = error,
                           !.finished_at = finished_at]]

\* Mutant: the UPDATE leaves the finished_at column out.
update_task_status_without_finished_at(tk, task_id, status, progress, message, error, finished_at) ==
    IF tk[task_id] = NoTask THEN tk
    ELSE [tk EXCEPT ![task_id] =
            [@ EXCEPT !.status = status, !.progress = progress,
                      !.message = message, !.error = error]]

\* update_task_status: UPDATE tasks SET status, progress, message, error,
\* finished_at WHERE id = task_id.  All five columns are written on every
\* call; a missing row is left missing.
update_task_status(tk, task_id, status, progress, message, error, finished_at) ==
    IF tk[task_id] = NoTask THEN tk
    ELSE [tk EXCEPT ![task_id] =
            [@ EXCEPT !.status = status, !.progress = progress,
                      !.message = message, !.error = error,
                      !.finished_at = finished_at]]

\* save_result: upsert of the result row of task_id.
save_result(rs, task_id, result) == [rs EXCEPT ![task_id] = Stored(result)]

\* get_task: the row of task_id, or None when there is none.  (The read
\* itself is taken to succeed.)
get_task(task_id) ==
    IF task_id \in DOMAIN tasks THEN tasks[task_id] ELSE NoTask

\* get_result: result_json of the row of task_id, or None when single()
\* finds no row (APIError).
get_result(task_id) ==
    IF task_id \in DOMAIN results THEN results[task_id] ELSE NoResult

\* No row in table webhooks; process_webhook_batch not scheduled.
NoWebhook == [secret |-> NULL]
NoProcess == [pc |-> "idle"]
\* No status query in slot q.
NoQuery == [pc |-> "idle"]
\* calculate_level4_visits not called; format_conversion_csv not called.
NoCalc == [pc |-> "idle"]
NoCall == [pc |-> "idle"]

\* ----------------------------------------------------------------- run_task
NoRun == [pc |-> "idle", exc |-> NULL, result |-> NoResult]
\* An export on the provider's side: whether it was created, the status it
\* has settled in (NULL while it still moves), whether it was cleaned.
NoExport == [made |-> FALSE, settled |-> NULL, cleaned |-> FALSE]

Goto(t, pc) == run' = [run EXCEPT ![t].pc = pc]

\* An exception raised inside the try block of run_task: control moves to
\* the except clause with the exception bound to e (result is not read
\* again).  Raised inside the except clause it leaves run_task.
Raise(t, e) ==
    run' = [run EXCEPT ![t] =
              [pc |-> IF run[t].pc = "except" THEN "raised" ELSE "except",
               exc |-> e, result |-> NoResult]]

\* run_task returns: its locals are gone.
Return(t) == run' = [run EXCEPT ![t] = [NoRun EXCEPT !.pc = "returned"]]

\* The statuses wait_processed keeps polling on.
Continuable == {"created", "processing", "processed_with_errors", "awaiting_retry"}

\* The statement that follows a pipeline call that returned.
After(pc) ==
    CASE pc = "start" -> "create_visits"
      [] pc = "create_visits" -> "create_hits"
      [] pc = "create_hits" -> "wait_visits"
      [] pc = "wait_visits" -> "wait_hits"
      [] pc = "wait_hits" -> "download_visits"
      [] pc = "download_visits" -> "download_hits"
      [] pc = "download_hits" -> "clean_visits"
      [] pc = "clean_visits" -> "clean_hits"
      [] pc = "clean_hits" -> "compute"
      [] pc = "compute" -> "save_result"
      [] pc = "save_result" -> "mark_done"
      [] OTHER -> "returned"

At(t, step, src) == run[t].pc = IF src = "visits" THEN step[1] ELSE step[2]

\* run_task, first statement of the try block: the job becomes running.
run_task_running(t) ==
    /\ run[t].pc = "start"
    /\ tasks' = update_task_status(tasks, t, "running", 10, "calculating", NULL, NULL)
    /\ Goto(t, After("start"))
    /\ UNCHANGED <<results, exports, http, uploads, metrika, pollers, poll, hookvars, calc, fmt>>

\* create_request: the provider creates the export, or answers with an
\* error status and raise_for_status raises.
create_request(t, src) ==
    /\ At(t, <<"create_visits", "create_hits">>, src)
    /\ \/ /\ exports' = [exports EXCEPT ![t][src] = [NoExport EXCEPT !.made = TRUE]]
          /\ Goto(t, After(run[t].pc))
       \/ /\ Raise(t, "HTTPError")
          /\ UNCHANGED exports
    /\ UNCHANGED <<tasks, results, http, uploads, metrika, pollers, poll, hookvars, calc, fmt>>

\* Mutant: every status but processed is polled again.
wait_processed_never_raises(status) ==
    IF status = "processed" THEN "return" ELSE "sleep"

\* What wait_processed does with one reported status: return, poll again
\* after the sleep, or raise.
wait_processed(status) ==
    IF status = "processed" THEN "return"
    ELSE IF status \notin Continuable THEN "raise"
    ELSE "sleep"

\* One iteration of the loop of wait_processed, up to the sleep.  The
\* export moves on the provider's side until it settles in a status it never
\* leaves; the poll reads its status.  The status read by the poll that ends
\* the loop is the last one observed, and is recorded as the settled one.
poll_export(t, src, status, settles) ==
    /\ At(t, <<"wait_visits", "wait_hits">>, src)
    /\ IF exports[t][src].settled # NULL
         THEN status = exports[t][src].settled /\ settles
         ELSE settles \/ wait_processed(status) = "sleep"
    /\ exports' = [exports EXCEPT ![t][src].settled = IF settles THEN status ELSE NULL]
    /\ CASE wait_processed(status) = "return" -> Goto(t, After(run[t].pc))
         [] wait_processed(status) = "raise" -> Raise(t, "RuntimeError: bad status")
         [] OTHER -> Goto(t, IF src = "visits" THEN "sleep_visits" ELSE "sleep_hits")
    /\ UNCHANGED <<tasks, results, http, uploads, metrika, pollers, poll, hookvars, calc, fmt>>

\* time.sleep(8) of wait_processed is over: the loop polls again.
sleep(t, src) ==
    /\ At(t, <<"sleep_visits", "sleep_hits">>, src)
    /\ Goto(t, IF src = "visits" THEN "wait_visits" ELSE "wait_hits")
    /\ UNCHANGED <<tasks, results, exports, http, uploads, metrika, pollers, poll, hookvars, calc, fmt>>

\* The status request of wait_processed fails, or its answer carries no
\* log_request status: the exception leaves the loop.
poll_fails(t, src) ==
    /\ At(t, <<"wait_visits", "wait_hits">>, src)
    /\ Raise(t, "KeyError")
    /\ UNCHANGED <<tasks, results, exports, http, uploads, metrika, pollers, poll, hookvars, calc, fmt>>

\* download_data: the part is downloaded, or the request fails.
download_data(t, src) ==
    /\ At(t, <<"download_visits", "download_hits">>, src)
    /\ \/ Goto(t, After(run[t].pc))
       \/ Raise(t, "HTTPError")
    /\ UNCHANGED <<tasks, results, exports, http, uploads, metrika, pollers, poll, hookvars, calc, fmt>>

\* clean_request: the provider drops the export, or the request fails.
clean_request(t, src) ==
    /\ At(t, <<"clean_visits", "clean_hits">>, src)
    /\ \/ /\ exports' = [exports EXCEPT ![t][src].cleaned = TRUE]
          /\ Goto(t, After(run[t].pc))
       \/ /\ Raise(t, "HTTPError")
          /\ UNCHANGED exports
    /\ UNCHANGED <<tasks, results, http, uploads, metrika, pollers, poll, hookvars, calc, fmt>>

\* Feature extraction and classification over the downloaded rows: the
\* tier-4+ visits, or an error (no model for a device class, a malformed row).
compute(t) ==
    /\ run[t].pc = "compute"
    /\ \/ \E r \in ResultLists :
            run' = [run EXCEPT ![t].pc = After("compute"), ![t].result = Stored(r)]
       \/ Raise(t, "FileNotFoundError: no model")
    /\ UNCHANGED <<tasks, results, exports, http, uploads, metrika, pollers, poll, hookvars, calc, fmt>>

\* Mutant: the result is not written before the run goes on.
run_task_save_skipped(t) ==
    /\ run[t].pc = "save_result"
    /\ Goto(t, After("save_result"))
    /\ UNCHANGED <<tasks, results, exports, http, uploads, metrika, pollers, poll, hookvars, calc, fmt>>

\* run_task: await save_result(task_id, result).
run_task_save(t) ==
    /\ run[t].pc = "save_result"
    /\ results' = save_result(results, t, run[t].result.rows)
    /\ Goto(t, After("save_result"))
    /\ UNCHANGED <<tasks, exports, http, uploads, metrika, pollers, poll, hookvars, calc, fmt>>

\* Mutant: a statement that follows the update to done in the try block
\* raises, so the except clause runs after done was stored.
run_task_done_then_raises(t) ==
    /\ run[t].pc = "mark_done"
    /\ tasks' = update_task_status(tasks, t, "done", 100, "ready", NULL, Now)
    /\ Raise(t, "ValueError")
    /\ UNCHANGED <<results, exports, http, uploads, metrika, pollers, poll, hookvars, calc, fmt>>

\* run_task, last statement of the try block: the job becomes done.
run_task_done(t) ==
    /\ run[t].pc = "mark_done"
    /\ tasks' = update_task_status(tasks, t, "done", 100, "ready", NULL, Now)
    /\ Return(t)
    /\ UNCHANGED <<results, exports, http, uploads, metrika, pollers, poll, hookvars, calc, fmt>>

\* Mutant: the failure is recorded without the progress argument, which
\* then takes its default 0.
run_task_failed_default_progress(t) ==
    /\ run[t].pc = "except"
    /\ tasks' = update_task_status(tasks, t, "failed", 0, "error", run[t].exc, Now)
    /\ Return(t)
    /\ UNCHANGED <<results, exports, http, uploads, metrika, pollers, poll, hookvars, calc, fmt>>

\* run_task, the except clause: the job becomes failed with str(e).
run_task_failed(t) ==
    /\ run[t].pc = "except"
    /\ tasks' = update_task_status(tasks, t, "failed", 100, "error", run[t].exc, Now)
    /\ Return(t)
    /\ UNCHANGED <<results, exports, http, uploads, metrika, pollers, poll, hookvars, calc, fmt>>

\* The statements of run_task that call the store.
StoreCalls == {"start", "save_result", "mark_done", "except"}

\* A store call of run_task raises (APIError re-raised as Exception) and
\* leaves the store as it was.
store_raises(t) ==
    /\ run[t].pc \in StoreCalls
    /\ Raise(t, "APIError")
    /\ UNCHANGED <<tasks, results, exports, http, uploads, metrika, pollers, poll, hookvars, calc, fmt>>

\* One step of the background run of task t, every store call returning.
RunStep(t) ==
    \/ run_task_running(t)
    \/ \E src \in Sources : create_request(t, src)
    \/ \E src \in Sources, status \in ExportStatuses, settles \in BOOLEAN :
          poll_export(t, src, status, settles)
    \/ \E src \in Sources : sleep(t, src)
    \/ \E src \in Sources : poll_fails(t, src)
    \/ \E src \in Sources : download_data(t, src)
    \/ \E src \in Sources : clean_request(t, src)
    \/ compute(t)
    \/ run_task_save(t)
    \/ run_task_done(t)
    \/ run_task_failed(t)

\* ------------------------------------------------- calculate_level4_visits
\* watch_time: the time of each hit by its watchID, in seconds; of two hits
\* with one watchID the later in the list stays.
watch_time(hits_raw) ==
    [w \in {hits_raw[i].watchID : i \in DOMAIN hits_raw} |->
        LET last == CHOOSE i \in DOMAIN hits_raw :
                        /\ hits_raw[i].watchID = w
                        /\ \A j \in DOMAIN hits_raw : hits_raw[j].watchID = w => j <= i
        IN hits_raw[last].time]

\* device_map.get(vid, 0): int(deviceCategory or "0") of the first hit whose
\* watchID starts with the visit id (hit.visit is that prefix), 0 without one.
device_map(hits_raw, vid) ==
    IF \A i \in DOMAIN hits_raw : hits_raw[i].visit # vid THEN 0
    ELSE LET first == CHOOSE i \in DOMAIN hits_raw :
                          /\ hits_raw[i].visit = vid
                          /\ \A j \in DOMAIN hits_raw : hits_raw[j].visit = vid => i <= j
             cat == hits_raw[first].deviceCategory
         IN CASE cat = "1" -> 1 [] cat = "2" -> 2 [] cat = "3" -> 3 [] OTHER -> 0

\* times: [watch_time.get(i) for i in ids if i in watch_time].
RECURSIVE times(_, _)
times(ids, wt) ==
    IF ids = <<>> THEN <<>>
    ELSE (IF Head(ids) \in DOMAIN wt THEN <<wt[Head(ids)]>> ELSE <<>>)
         \o times(Tail(ids), wt)

\* The 15-second slots of a list of times, counted from the earliest.
slots_of(ts) ==
    LET t0 == CHOOSE t \in {ts[i] : i \in DOMAIN ts} : \A i \in DOMAIN ts : t <= ts[i]
    IN {(ts[i] - t0) \div 15 : i \in DOMAIN ts}

\* Mutant: the events are counted, not their slots.
active_slots_counts_times(ids, wt) == Len(times(ids, wt))

\* active_slots(ids).
active_slots(ids, wt) ==
    IF times(ids, wt) = <<>> THEN 0 ELSE Cardinality(slots_of(times(ids, wt)))

\* slot_range_val of a non-empty list of times: max slot - min slot.
slot_range(ts) ==
    LET ss == slots_of(ts)
        hi == CHOOSE x \in ss : \A y \in ss : y <= x
        lo == CHOOSE x \in ss : \A y \in ss : x <= y
    IN hi - lo

\* pauses: np.diff of the sorted times when there are at least two.
pauses(ts) ==
    IF Len(ts) > 1
      THEN LET sorted == SortSeq(ts, LAMBDA x, y : x < y)
           IN [i \in 1..(Len(ts) - 1) |-> sorted[i + 1] - sorted[i]]
      ELSE <<>>

\* np.median, np.mean and np.std of the pauses, 0.0 when there is none, in
\* whole seconds (exact for the HitTimes and at most MaxEvents events).
RECURSIVE sum(_)
sum(xs) == IF xs = <<>> THEN 0 ELSE Head(xs) + sum(Tail(xs))

median_pause(ps) ==
    IF ps = <<>> THEN 0
    ELSE LET sorted == SortSeq(ps, LAMBDA x, y : x < y)
             n == Len(ps)
         IN IF n % 2 = 1 THEN sorted[(n + 1) \div 2]
            ELSE (sorted[n \div 2] + sorted[n \div 2 + 1]) \div 2

mean_pause(ps) == IF ps = <<>> THEN 0 ELSE sum(ps) \div Len(ps)

std_pause(ps) ==
    IF ps = <<>> THEN 0
    ELSE LET var == sum([i \in DOMAIN ps |-> (ps[i] - mean_pause(ps)) * (ps[i] - mean_pause(ps))])
                      \div Len(ps)
         IN CHOOSE r \in 0..var : r * r <= var /\ (r + 1) * (r + 1) > var

\* The feature row of a visit (watchIDs is the list WATCH_RE finds; duration,
\* bounce and slot_density, which nothing but a model reads, are left out).
feature_row(v, hits_raw) ==
    LET wt == watch_time(hits_raw)
        ts == times(v.watchIDs, wt) IN
    [visitId |-> v.visitID, clientId |-> v.clientID, dateTime |-> v.dateTime,
     visitDuration |-> v.visitDuration, pageViews |-> v.pageViews,
     device |-> device_map(hits_raw, v.visitID),
     slots |-> active_slots(v.watchIDs, wt),
     slot_range |-> IF ts # <<>> THEN slot_range(ts) ELSE 0,
     median_pause |-> IF ts # <<>> THEN median_pause(pauses(ts)) ELSE 0,
     mean_pause |-> IF ts # <<>> THEN mean_pause(pauses(ts)) ELSE 0,
     std_pause |-> IF ts # <<>> THEN std_pause(pauses(ts)) ELSE 0]

\* run_task at calculate_level4_visits, the exports downloaded: one feature
\* row per visit.
prepare_features(t) ==
    /\ run[t].pc = "compute"
    /\ calc[t].pc = "features"
    /\ calc' = [calc EXCEPT ![t].pc = "classify",
                            ![t].df = [i \in DOMAIN calc[t].visits_raw |->
                                         feature_row(calc[t].visits_raw[i],
                                                     calc[t].hits_raw)]]
    /\ UNCHANGED <<tasks, results, run, exports, http, uploads, metrika, pollers, poll,
                   hookvars, fmt>>

\* The device classes that have a model, in the order of the loop.
DeviceModels == <<[code |-> 1, name |-> "desktop"], [code |-> 2, name |-> "mobile"]>>

\* The thresholds used when level4_thresholds.json does not exist, and the
\* default of thresholds.get(name, 0.5); probabilities are in hundredths.
DefaultThresholds == [desktop |-> 48, mobile |-> 36]
FallbackThreshold == 50

\* thresholds: the content of level4_thresholds.json when the file exists
\* (file = <<content>>), the defaults otherwise (file = <<>>).
thresholds(file) == IF file = <<>> THEN DefaultThresholds ELSE file[1]

\* rule_mask of a row of df.
rule_mask(row) == row.visitDuration >= 180 /\ row.pageViews >= 5 /\ row.slots >= 5

\* Mutant: the rows of the device class, the rule-positive ones included.
idx_with_rule_rows(df, code) == {i \in DOMAIN df : df[i].device = code}

\* idx: the rows of a device class the rule did not select.
idx(df, code) == {i \in DOMAIN df : df[i].device = code /\ ~rule_mask(df[i])}

\* The loop over the device classes from its k-th turn on.  c holds df, the
\* names of the device classes whose model file exists (models), the
\* thresholds file and what predict_proba gives for each row (proba); st
\* holds pred_high, the models each row was passed to, and the exception
\* raised, if any.
RECURSIVE apply_models(_, _, _)
apply_models(k, c, st) ==
    IF k > Len(DeviceModels) THEN st
    ELSE LET code == DeviceModels[k].code
             name == DeviceModels[k].name
             rows == idx(c.df, code)
             limit == IF name \in DOMAIN thresholds(c.thresholds_file)
                        THEN thresholds(c.thresholds_file)[name]
                        ELSE FallbackThreshold IN
         IF rows = {} THEN apply_models(k + 1, c, st)
         ELSE IF name \notin c.models
           THEN [st EXCEPT !.raised = "FileNotFoundError: no model"]
         ELSE apply_models(k + 1, c,
                [st EXCEPT
                   !.pred_high = [i \in DOMAIN c.df |->
                                    IF i \in rows THEN c.proba[i] > limit ELSE @[i]],
                   !.passed_to = [i \in DOMAIN c.df |->
                                    IF i \in rows THEN @[i] \cup {name} ELSE @[i]]])

\* sel: the rows of df that pred_high selects, with the four output columns.
RECURSIVE sel(_, _)
sel(df, pred_high) ==
    IF df = <<>> THEN <<>>
    ELSE (IF Head(pred_high)
            THEN <<[visitId |-> Head(df).visitId, clientId |-> Head(df).clientId,
                    dateTime |-> Head(df).dateTime,
                    visitDuration |-> Head(df).visitDuration]>>
            ELSE <<>>)
         \o sel(Tail(df), Tail(pred_high))

\* calculate_level4_visits from the DataFrame on: an empty df has no columns
\* and df["visitDuration"] raises KeyError; pred_high starts as rule_mask and
\* the loop overwrites it on the rows passed to a model.
level4(c) ==
    IF c.df = <<>>
      THEN [raised |-> "KeyError", pred_high |-> <<>>, passed_to |-> <<>>]
      ELSE apply_models(1, c,
             [raised |-> NULL,
              pred_high |-> [i \in DOMAIN c.df |-> rule_mask(c.df[i])],
              passed_to |-> [i \in DOMAIN c.df |-> {}]])

\* run_task at calculate_level4_visits, the features being prepared: the
\* classification returns the selected visits or raises.
classify(t) ==
    /\ run[t].pc = "compute"
    /\ calc[t].pc = "classify"
    /\ LET out == level4(calc[t]) IN
         /\ calc' = [calc EXCEPT ![t] =
                [pc |-> IF out.raised # NULL THEN "raised" ELSE "returned",
                 visits_raw |-> calc[t].visits_raw, hits_raw |-> calc[t].hits_raw,
                 df |-> calc[t].df, models |-> calc[t].models,
                 thresholds_file |-> calc[t].thresholds_file, proba |-> calc[t].proba,
                 pred_high |-> out.pred_high, passed_to |-> out.passed_to,
                 sel |-> IF out.raised # NULL THEN <<>> ELSE sel(calc[t].df, out.pred_high)]]
         /\ IF out.raised # NULL
              THEN Raise(t, out.raised)
              ELSE run' = [run EXCEPT ![t].pc = After("compute"),
                                      ![t].result = Stored(sel(calc[t].df, out.pred_high))]
    /\ UNCHANGED <<tasks, results, exports, http, uploads, metrika, pollers, poll,
                   hookvars, fmt>>

\* ------------------------------------------------------------ POST /tasks
\* The request bodies a client may send; has_counter is FALSE when the body
\* carries no counter (None).
TaskRequests ==
    {req \in [date : {"2025-07-01", "20250701"},
              token : {NULL, "", "tok"},
              has_counter : BOOLEAN,
              counter : {0, -5, 92342184}] :
        ~req.has_counter => req.counter = 0}

\* Mutant: the handler does not test the counter, so a request without one
\* (or with 0, which the validator lets through when it tests v < 0) passes.
validate_task_request_counter_unchecked(req) ==
    IF req.date # "2025-07-01" THEN 422
    ELSE IF req.has_counter /\ req.counter < 0 THEN 422
    ELSE IF req.token = NULL THEN 422
    ELSE IF req.token = "" THEN 400
    ELSE 202

\* TaskRequest's validators and the checks that open create_task: the
\* status the request is rejected with, or 202.
validate_task_request(req) ==
    IF req.date # "2025-07-01" THEN 422
    ELSE IF req.has_counter /\ req.counter <= 0 THEN 422
    ELSE IF req.token = NULL THEN 422
    ELSE IF req.token = "" THEN 400
    ELSE IF ~req.has_counter \/ req.counter = 0 THEN 422
    ELSE 202

Idle == [op |-> "none", stage |-> "idle"]
Response(op, t, code, detail) ==
    [op |-> op, stage |-> "response", t |-> t, code |-> code, detail |-> detail]
NoRequestInFlight == http.stage \in {"idle", "response"}

\* create_task: reject, or insert the pending row under a fresh id and
\* schedule run_task for it; when the insert raises nothing is scheduled.
\* uuid4 ids are opaque, so the fresh id is taken to be the least unused one.
CreateTask(req) ==
    /\ NoRequestInFlight
    /\ UNCHANGED <<results, exports, uploads, metrika, pollers, poll, hookvars, calc, fmt>>
    /\ IF validate_task_request(req) # 202
         THEN /\ http' = Response("create", 0, validate_task_request(req), "rejected")
              /\ UNCHANGED <<tasks, run>>
         ELSE \E t \in TaskIds :
                /\ tasks[t] = NoTask
                /\ \A u \in 1..(t - 1) : tasks[u] # NoTask
                /\ \/ /\ tasks' = [tasks EXCEPT ![t] = create_task(req)]
                      /\ run' = [run EXCEPT ![t].pc = "start"]
                      /\ http' = Response("create", t, 202, "accepted")
                   \/ /\ http' = Response("create", 0, 500, "Internal server error")
                      /\ UNCHANGED <<tasks, run>>

\* ------------------------------------------------ GET /tasks/{id}/result
Limits == 1..MaxLimit
Offsets == 0..MaxOffset

\* A slice that takes one row past offset + limit.
Slice_one_past(s, offset, limit) ==
    SubSeq(s, offset + 1, IF offset + limit + 1 < Len(s) THEN offset + limit + 1 ELSE Len(s))

\* s[offset:offset+limit]
Slice(s, offset, limit) ==
    SubSeq(s, offset + 1, IF offset + limit < Len(s) THEN offset + limit ELSE Len(s))

\* get_task_result once both reads are made: the answer for the task row
\* and the result (None as NoResult) it got.
get_task_result(task, result, limit, offset) ==
    IF ~result.present
      THEN IF task.status # "done"
             THEN [code |-> 202, detail |-> "Task not finished"]
             ELSE [code |-> 404, detail |-> "Result not found"]
      ELSE [code |-> 200, detail |-> "rows",
            data |-> Slice(result.rows, offset, limit),
            total |-> Len(result.rows), limit |-> limit, offset |-> offset,
            has_more |-> offset + limit < Len(result.rows)]

\* get_task_result up to its first await: the task row is read.
ResultRequest(t, limit, offset) ==
    /\ NoRequestInFlight
    /\ LET task == get_task(t) IN
         http' = IF task = NoTask
                   THEN Response("result", t, 404, "Task not found")
                   ELSE [op |-> "result", stage |-> "get_result", t |-> t,
                         task |-> task, limit |-> limit, offset |-> offset]
    /\ UNCHANGED <<tasks, results, run, exports, uploads, metrika, pollers, poll, hookvars, calc, fmt>>

\* get_task_result from its second await: the result is read and the
\* request answered.
ResultAnswer ==
    /\ http.op = "result" /\ http.stage = "get_result"
    /\ LET ans == get_task_result(http.task, get_result(http.t),
                                    http.limit, http.offset) IN
         http' = [op |-> "result", stage |-> "response", t |-> http.t,
                  code |-> ans.code, detail |-> ans.detail, body |-> ans]
    /\ UNCHANGED <<tasks, results, run, exports, uploads, metrika, pollers, poll, hookvars, calc, fmt>>

\* --------------------------------------------------- POST /conversions/bulk
\* str.replace(old, new) over the parts of a text; new is a text.
RECURSIVE replace(_, _, _)
replace(text, old, new) ==
    IF text = <<>> THEN <<>>
    ELSE (IF Head(text) = old THEN new ELSE <<Head(text)>>) \o replace(Tail(text), old, new)

\* datetime.fromisoformat(text) and .timestamp(): a date, "T", a time and
\* optionally a signed UTC offset parse (a text without offset as a time of
\* the host, taken to run on UTC); any other text raises ValueError.
fromisoformat(text) ==
    IF Len(text) \in {3, 5} /\ text[1] = "2025-07-01" /\ text[2] = "T"
         /\ text[3] = "12:00:00"
         /\ (Len(text) = 5 => text[4] \in {"+", "-"} /\ text[5] \in {"00:00", "03:00"})
      THEN LET seconds == IF Len(text) = 5 /\ text[5] = "03:00" THEN 10800 ELSE 0 IN
           [ok |-> TRUE,
            timestamp |-> IF Len(text) = 5 /\ text[4] = "-"
                            THEN 1751371200 + seconds ELSE 1751371200 - seconds]
      ELSE [ok |-> FALSE, timestamp |-> 0]

\* format_conversion_csv, lines 115-117: the dateTime with "T" for the blank,
\* and "Z" added when it neither ends with "Z" nor has a "+".
dt_str(dateTime) ==
    LET text == replace(dateTime, " ", <<"T">>) IN
    IF ~(text # <<>> /\ text[Len(text)] = "Z") /\ ~(\E i \in 1..Len(text) : text[i] = "+")
      THEN text \o <<"Z">> ELSE text

\* The dateTime of a visit as format_conversion_csv parses it, and its Unix
\* seconds.
Parses(dateTime) == fromisoformat(replace(dt_str(dateTime), "Z", <<"+", "00:00">>)).ok
UnixTime(dateTime) ==
    fromisoformat(replace(dt_str(dateTime), "Z", <<"+", "00:00">>)).timestamp

\* format_conversion_csv, the loop: one line per visit whose dateTime parses
\* and which has a clientId; a visit whose dateTime does not parse
\* (ValueError) or which has no clientId (KeyError) is skipped.
RECURSIVE format_rows(_, _)
format_rows(visits, target) ==
    IF visits = <<>> THEN <<>>
    ELSE LET v == Head(visits) IN
         (IF ~Parses(v.dateTime) \/ "clientId" \notin DOMAIN v THEN <<>>
          ELSE << <<v.clientId, target, UnixTime(v.dateTime)>> >>)
         \o format_rows(Tail(visits), target)

\* format_conversion_csv: visit["dateTime"] is read before the try block, so
\* a visit without the key raises KeyError out of the function; otherwise the
\* header line and the lines of the loop.
format_conversion_csv(visits, target) ==
    IF \E i \in 1..Len(visits) : "dateTime" \notin DOMAIN visits[i]
      THEN [raised |-> "KeyError", header |-> <<>>, rows |-> <<>>]
      ELSE [raised |-> NULL,
            header |-> <<"ClientId", "Target", "DateTime">>,
            rows |-> format_rows(visits, target)]

\* The checks that open send_bulk_conversions, once both reads are made:
\* the status it rejects with, or 200 to go on to the upload.
bulk_precondition(task, result) ==
    IF ~result.present
      THEN IF task.status # "done"
             THEN [code |-> 202, detail |-> "Task not finished yet"]
             ELSE [code |-> 404, detail |-> "Task results not found"]
      ELSE [code |-> 200, detail |-> "ok"]

\* The bulk payloads the provider holds.
BulkSent == {i \in 1..Len(metrika) : metrika[i].task_id \in TaskIds}

\* send_bulk_conversions up to its first await: the task row is read.
BulkRequest(t) ==
    /\ NoRequestInFlight
    /\ Len(metrika) < MaxUploads /\ Cardinality(BulkSent) < MaxBulk
    /\ LET task == get_task(t) IN
         http' = IF task = NoTask
                   THEN Response("bulk", t, 404, "Task not found")
                   ELSE [op |-> "bulk", stage |-> "get_result", t |-> t, task |-> task]
    /\ UNCHANGED <<tasks, results, run, exports, uploads, metrika, pollers, poll, hookvars, calc, fmt>>

\* send_bulk_conversions: the result is read; without one the request is
\* answered, with one the CSV is formatted.
BulkGetResult ==
    /\ http.op = "bulk" /\ http.stage = "get_result"
    /\ LET result == get_result(http.t)
             pre == bulk_precondition(http.task, result)
             csv_data == format_conversion_csv(result.rows, "4plus") IN
         http' = IF pre.code # 200
                   THEN Response("bulk", http.t, pre.code, pre.detail)
                 ELSE IF csv_data.raised # NULL
                   THEN Response("bulk", http.t, 500, "Internal server error")
                 ELSE [op |-> "bulk", stage |-> "send", t |-> http.t,
                       task |-> http.task,
                       csv |-> [header |-> csv_data.header, rows |-> csv_data.rows],
                       total |-> Len(result.rows)]
    /\ UNCHANGED <<tasks, results, run, exports, uploads, metrika, pollers, poll, hookvars, calc, fmt>>

\* What the client gets when send_conversions_to_metrika raises: the
\* provider's answer is not 200 (HTTPException with the provider's text,
\* passed on), or the request itself fails (any other exception, turned into
\* 500 by the handler).
SendFailures ==
    {[code |-> 400, detail |-> "Metrika API error"],
     [code |-> 500, detail |-> "Error sending conversions"]}

\* A bulk send that goes on to the upload row also when the provider did not
\* take the payload.
BulkSend_goes_on_after_failure ==
    /\ http.op = "bulk" /\ http.stage = "send"
    /\ \/ metrika' = Append(metrika, [task_id |-> http.t, csv |-> http.csv])
       \/ UNCHANGED metrika
    /\ http' = [op |-> "bulk", stage |-> "create_upload", t |-> http.t,
                task |-> http.task, total |-> http.total,
                metrika_upload_id |-> Len(metrika) + 1]
    /\ UNCHANGED <<tasks, results, run, exports, uploads, pollers, poll, hookvars, calc, fmt>>

\* send_conversions_to_metrika: the provider takes the payload and assigns
\* an upload id, or the call raises and the client gets the error.
BulkSend ==
    /\ http.op = "bulk" /\ http.stage = "send"
    /\ \/ /\ metrika' = Append(metrika, [task_id |-> http.t, csv |-> http.csv])
          /\ http' = [op |-> "bulk", stage |-> "create_upload", t |-> http.t,
                      task |-> http.task, total |-> http.total,
                      metrika_upload_id |-> Len(metrika) + 1]
       \/ /\ \E failure \in SendFailures :
                http' = Response("bulk", http.t, failure.code, failure.detail)
          /\ UNCHANGED metrika
    /\ UNCHANGED <<tasks, results, run, exports, uploads, pollers, poll, hookvars, calc, fmt>>

\* create_conversion_upload: the row inserted for a new upload.
create_conversion_upload(id, metrika_upload_id, task_id, total_conversions) ==
    [id |-> id, metrika_upload_id |-> metrika_upload_id, task_id |-> task_id,
     status |-> "pending", total_conversions |-> total_conversions,
     processed_conversions |-> 0, errors |-> NULL]

\* send_bulk_conversions after the upload: the upload row is inserted and
\* its status poller scheduled; when the insert raises the client gets 500.
BulkCreateUpload ==
    /\ http.op = "bulk" /\ http.stage = "create_upload"
    /\ \/ /\ uploads' = Append(uploads,
                create_conversion_upload(Len(uploads) + 1, http.metrika_upload_id,
                                         http.t, http.total))
          /\ pollers' = pollers \cup {Len(uploads) + 1}
          /\ http' = [op |-> "bulk", stage |-> "response", t |-> http.t,
                      code |-> 200, detail |-> "uploaded",
                      task |-> http.task, upload_id |-> Len(uploads) + 1]
       \/ /\ http' = Response("bulk", http.t, 500, "Error sending conversions")
          /\ UNCHANGED <<uploads, pollers>>
    /\ UNCHANGED <<tasks, results, run, exports, metrika, poll, hookvars, calc, fmt>>

\* ------------------------------------------------ POST /conversions/single
\* task_id of an upload that has no job (None).
NoTaskId == 0

\* if v: a string that is neither None nor empty.
Truthy(v) == v # NULL /\ v # ""

\* One optional CSV column: present when cond holds.
Column(cond, x) == IF cond THEN <<x>> ELSE <<>>

\* format_single_conversion_csv: the header line and the one value line; an
\* identifier column is there when the identifier is truthy, Price when price
\* is not None, Currency when it is truthy.  date_time is the Unix time.
format_single_conversion_csv(target, date_time, client_id, user_id, yclid, purchase_id, price, currency) ==
    [header |-> <<"Target", "DateTime">>
                  \o Column(Truthy(client_id), "ClientId")
                  \o Column(Truthy(user_id), "UserId")
                  \o Column(Truthy(yclid), "Yclid")
                  \o Column(Truthy(purchase_id), "PurchaseId")
                  \o Column(price # NULL, "Price")
                  \o Column(Truthy(currency), "Currency"),
     rows |-> << <<target, date_time>>
                  \o Column(Truthy(client_id), client_id)
                  \o Column(Truthy(user_id), user_id)
                  \o Column(Truthy(yclid), yclid)
                  \o Column(Truthy(purchase_id), purchase_id)
                  \o Column(price # NULL, price)
                  \o Column(Truthy(currency), currency) >>]

\* The single-conversion requests a client sends (one identifier each).
SingleRequests ==
    [target : {"4plus"}, date_time : {UnixTime(MetrikaTime)},
     client_id : {"c1"}, user_id : {NULL}, yclid : {NULL}, purchase_id : {NULL},
     price : {"10.0"}, currency : {NULL}]

\* The identifier fields of SingleConversionRequest, in declaration order.
Identifiers == <<"client_id", "user_id", "yclid", "purchase_id">>

\* SingleConversionRequest.validate_identifiers for the value v of one
\* identifier field, values holding the fields validated before it: TRUE when
\* it raises.  It raises when none of the fields in values is truthy and v is
\* None.
validate_identifiers(v, values) ==
    /\ ~\E f \in DOMAIN values : Truthy(values[f])
    /\ v = NULL

\* Validation of the body of POST /conversions/single: the validator is run
\* for each identifier field whose value is given and is not None (a field
\* left out takes its default None without validation), with the fields
\* declared before it as values.  422 when a run raises, else 200.
validate_single_request(req) ==
    IF \E i \in 1..Len(Identifiers) :
          /\ req[Identifiers[i]] # NULL
          /\ validate_identifiers(req[Identifiers[i]],
                 [k \in {Identifiers[j] : j \in 1..(i - 1)} |-> req[k]])
      THEN 422 ELSE 200

\* The bodies a client may send to POST /conversions/single: any of the four
\* identifiers given or left out, client_id also given empty.
SingleBodies ==
    [target : {"4plus"}, date_time : {UnixTime(MetrikaTime)},
     client_id : {NULL, "", "c1"}, user_id : {NULL, "u1"}, yclid : {NULL, "y1"},
     purchase_id : {NULL, "p1"}, price : {"10.0"}, currency : {NULL}]

\* send_single_conversion up to the provider's answer: the body is validated,
\* the CSV is formatted and submitted; the provider takes it and assigns an
\* upload id, or answers with an error that is passed on to the client.
SingleSend(req) ==
    /\ NoRequestInFlight
    /\ Len(metrika) < MaxUploads
    /\ LET csv == format_single_conversion_csv(req.target, req.date_time,
                      req.client_id, req.user_id, req.yclid, req.purchase_id,
                      req.price, req.currency) IN
         IF validate_single_request(req) # 200
           THEN /\ http' = Response("single", NoTaskId, 422, "validation error")
                /\ UNCHANGED metrika
           ELSE \/ /\ metrika' = Append(metrika, [task_id |-> NoTaskId, csv |-> csv])
                   /\ http' = [op |-> "single", stage |-> "create_upload",
                               metrika_upload_id |-> Len(metrika) + 1]
                \/ /\ \E failure \in SendFailures :
                        http' = Response("single", NoTaskId, failure.code, failure.detail)
                   /\ UNCHANGED metrika
    /\ UNCHANGED <<tasks, results, run, exports, uploads, pollers, poll, hookvars, calc, fmt>>

\* send_single_conversion after the upload: the upload row is inserted with
\* no task and one conversion, and its status poller scheduled; when the
\* insert raises the client gets 500.
SingleCreateUpload ==
    /\ http.op = "single" /\ http.stage = "create_upload"
    /\ \/ /\ uploads' = Append(uploads,
                create_conversion_upload(Len(uploads) + 1, http.metrika_upload_id,
                                         NoTaskId, 1))
          /\ pollers' = pollers \cup {Len(uploads) + 1}
          /\ http' = [op |-> "single", stage |-> "response", t |-> NoTaskId,
                      code |-> 200, detail |-> "uploaded",
                      upload_id |-> Len(uploads) + 1]
       \/ /\ http' = Response("single", NoTaskId, 500, "Error sending conversion")
          /\ UNCHANGED <<uploads, pollers>>
    /\ UNCHANGED <<tasks, results, run, exports, metrika, poll, hookvars, calc, fmt>>

\* ------------------------------------------- check_conversion_upload_status
\* The status_info check_conversion_status builds from the provider's answer:
\* the provider's status string as it is ("unknown" when the answer has
\* none), and the processed count and errors, <<>> and NULL when absent.
StatusInfos ==
    {[status |-> "unknown", processed |-> <<>>, errors |-> NULL],
     [status |-> "processed", processed |-> <<1>>, errors |-> NULL],
     [status |-> "failed", processed |-> <<0>>, errors |-> "bad line"]}

NoInfo == [status |-> NULL, processed |-> <<>>, errors |-> NULL]

\* check_conversion_status: the provider's answer as status_info; the
\* status is passed through untranslated.
check_conversion_status(answer) ==
    [status |-> answer.status, processed |-> answer.processed, errors |-> answer.errors]

\* update_conversion_status: UPDATE conversion_uploads SET status (and
\* processed_conversions, errors when given) WHERE id = upload_id; a missing
\* row is left missing.
update_conversion_status(up, upload_id, status, processed_conversions, errors) ==
    IF upload_id \notin 1..Len(up) THEN up
    ELSE [up EXCEPT ![upload_id] =
            [@ EXCEPT !.status = status,
                      !.processed_conversions =
                          IF processed_conversions # <<>> THEN processed_conversions[1] ELSE @,
                      !.errors = IF errors # NULL THEN errors ELSE @]]

\* The poller of an upload: not started.  calls counts the provider status
\* calls it has made; kept is the status of its last attempt that did not
\* fail (NULL when there is none).
NoPoll == [pc |-> "idle", attempt |-> 0, info |-> NoInfo, calls |-> 0, kept |-> NULL]

\* The background task starts: for attempt in range(max_attempts).
poller_start(u) ==
    /\ u \in pollers /\ poll[u].pc = "idle"
    /\ poll' = [poll EXCEPT ![u].pc = IF max_attempts > 0 THEN "check" ELSE "exhausted"]
    /\ UNCHANGED <<tasks, results, run, exports, http, uploads, metrika, pollers, hookvars, calc, fmt>>

\* Mutant: an exception of the provider call ends the poller.
poller_check_raise_aborts(u, answer) ==
    /\ poll[u].pc = "check"
    /\ \/ poll' = [poll EXCEPT ![u].pc = "update",
                                ![u].info = check_conversion_status(answer),
                                ![u].calls = @ + 1]
       \/ poll' = [poll EXCEPT ![u].pc = "exhausted", ![u].calls = @ + 1]
    /\ UNCHANGED <<tasks, results, run, exports, http, uploads, metrika, pollers, hookvars, calc, fmt>>

\* One attempt, the provider call: check_conversion_status returns the
\* status_info, or raises and the except clause of the attempt logs it.
poller_check(u, answer) ==
    /\ poll[u].pc = "check"
    /\ \/ poll' = [poll EXCEPT ![u].pc = "update",
                                ![u].info = check_conversion_status(answer),
                                ![u].calls = @ + 1]
       \/ poll' = [poll EXCEPT ![u].pc = "sleep", ![u].calls = @ + 1]
    /\ UNCHANGED <<tasks, results, run, exports, http, uploads, metrika, pollers, hookvars, calc, fmt>>

\* Mutant: the loop is not left when the status is processed or failed.
poller_update_never_breaks(u) ==
    /\ poll[u].pc = "update"
    /\ \/ /\ uploads' = update_conversion_status(uploads, u, poll[u].info.status,
                            poll[u].info.processed, poll[u].info.errors)
          /\ poll' = [poll EXCEPT ![u].pc = "sleep",
                                  ![u].kept = poll[u].info.status,
                                  ![u].info = NoInfo]
       \/ /\ poll' = [poll EXCEPT ![u].pc = "sleep", ![u].info = NoInfo]
          /\ UNCHANGED uploads
    /\ UNCHANGED <<tasks, results, run, exports, http, metrika, pollers, hookvars, calc, fmt>>

\* One attempt, the store update: the status_info is written and the loop
\* left when the status is processed or failed; or the update raises and the
\* except clause of the attempt logs it.
poller_update(u) ==
    /\ poll[u].pc = "update"
    /\ \/ /\ uploads' = update_conversion_status(uploads, u, poll[u].info.status,
                            poll[u].info.processed, poll[u].info.errors)
          /\ poll' = [poll EXCEPT
                        ![u].pc = IF poll[u].info.status \in {"processed", "failed"}
                                    THEN "finished" ELSE "sleep",
                        ![u].kept = poll[u].info.status,
                        ![u].info = NoInfo]
       \/ /\ poll' = [poll EXCEPT ![u].pc = "sleep", ![u].info = NoInfo]
          /\ UNCHANGED uploads
    /\ UNCHANGED <<tasks, results, run, exports, http, metrika, pollers, hookvars, calc, fmt>>

\* Mutant: the loop runs over range(max_attempts + 1).
poller_sleep_one_more_attempt(u) ==
    /\ poll[u].pc = "sleep"
    /\ poll' = IF poll[u].attempt + 1 < max_attempts + 1
                 THEN [poll EXCEPT ![u].pc = "check", ![u].attempt = @ + 1]
                 ELSE [poll EXCEPT ![u].pc = "exhausted"]
    /\ UNCHANGED <<tasks, results, run, exports, http, uploads, metrika, pollers, hookvars, calc, fmt>>

\* Mutant: an upload whose attempts are exhausted is marked as failed.
poller_sleep_marks_error(u) ==
    /\ poll[u].pc = "sleep"
    /\ IF poll[u].attempt + 1 < max_attempts
         THEN /\ poll' = [poll EXCEPT ![u].pc = "check", ![u].attempt = @ + 1]
              /\ UNCHANGED uploads
         ELSE /\ poll' = [poll EXCEPT ![u].pc = "exhausted"]
              /\ uploads' = update_conversion_status(uploads, u, "error", <<>>, NULL)
    /\ UNCHANGED <<tasks, results, run, exports, http, metrika, pollers, hookvars, calc, fmt>>

\* await asyncio.sleep(delay_seconds) is over: the next attempt, or the
\* range is exhausted and the task returns.
poller_sleep(u) ==
    /\ poll[u].pc = "sleep"
    /\ poll' = IF poll[u].attempt + 1 < max_attempts
                 THEN [poll EXCEPT ![u].pc = "check", ![u].attempt = @ + 1]
                 ELSE [poll EXCEPT ![u].pc = "exhausted"]
    /\ UNCHANGED <<tasks, results, run, exports, http, uploads, metrika, pollers, hookvars, calc, fmt>>

\* One step of the background poller of upload u.
PollStep(u) ==
    \/ poller_start(u)
    \/ \E answer \in StatusInfos : poller_check(u, answer)
    \/ poller_update(u)
    \/ poller_sleep(u)

\* ------------------------------------------ GET /conversions/{id}/status
\* get_conversion_upload: the row of upload_id, or None.
get_conversion_upload(upload_id) ==
    IF upload_id \in 1..Len(uploads) THEN uploads[upload_id] ELSE [status |-> "absent"]

\* get_conversion_status: the stored row is answered as it is; the handler
\* makes no provider call.
UploadStatusRequest(u) ==
    /\ NoRequestInFlight
    /\ LET upload == get_conversion_upload(u) IN
         http' = IF upload.status = "absent"
                   THEN Response("upload_status", u, 404, "Conversion upload not found")
                   ELSE [op |-> "upload_status", stage |-> "response", t |-> u,
                         code |-> 200, detail |-> "status",
                         status |-> upload.status, errors |-> upload.errors,
                         processed |-> upload.processed_conversions,
                         total |-> upload.total_conversions,
                         derived_from |-> "store"]
    /\ UNCHANGED <<tasks, results, run, exports, uploads, metrika, pollers, poll, hookvars, calc, fmt>>

\* ------------------------------------------------------------- webhooks
\* metrika_upload_id of a batch that was not uploaded (None, or the empty
\* string of an answer without an id).
NoUploadId == 0

\* secrets.token_urlsafe(32): the secret of each webhook, all different.
SecretOf(w) == <<"s1", "s2", "s3", "s4", "s5">>[w]

\* A row of table webhooks as create_webhook inserts it.
create_webhook(w) == [secret |-> SecretOf(w), is_active |-> TRUE, counter_id |-> 100 + w]

\* The X-Webhook-Secret headers a client sends: none, an empty one, the
\* secret of a webhook (its own or another's).
SecretHeaders == {NULL, ""} \cup {SecretOf(w) : w \in WebhookIds}

\* get_webhook: the row of webhook_id, or None.
get_webhook(webhook_id) ==
    IF webhook_id \in DOMAIN webhooks THEN webhooks[webhook_id] ELSE NoWebhook

\* get_webhook_batch: the row of batch_id, or None.
get_webhook_batch(batch_id) ==
    IF batch_id \in 1..Len(webhook_batches) THEN webhook_batches[batch_id]
    ELSE [status |-> "absent"]

\* get_webhook_conversions: the items of batch_id.
get_webhook_conversions(batch_id) ==
    IF batch_id \in DOMAIN webhook_conversions THEN webhook_conversions[batch_id] ELSE <<>>

\* Mutant: the header is only required to be there.
verify_webhook_secret_any_secret(webhook_id, x_webhook_secret) ==
    LET webhook == get_webhook(webhook_id) IN
    IF webhook = NoWebhook THEN [code |-> 404, detail |-> "Webhook not found"]
    ELSE IF ~webhook.is_active THEN [code |-> 403, detail |-> "Webhook is disabled"]
    ELSE IF ~Truthy(x_webhook_secret)
      THEN [code |-> 401, detail |-> "X-Webhook-Secret header is required"]
    ELSE [code |-> 200, detail |-> "ok"]

\* verify_webhook_secret: the status the request is rejected with, or 200.
verify_webhook_secret(webhook_id, x_webhook_secret) ==
    LET webhook == get_webhook(webhook_id) IN
    IF webhook = NoWebhook THEN [code |-> 404, detail |-> "Webhook not found"]
    ELSE IF ~webhook.is_active THEN [code |-> 403, detail |-> "Webhook is disabled"]
    ELSE IF ~Truthy(x_webhook_secret)
      THEN [code |-> 401, detail |-> "X-Webhook-Secret header is required"]
    ELSE IF webhook.secret # x_webhook_secret
      THEN [code |-> 403, detail |-> "Invalid webhook secret"]
    ELSE [code |-> 200, detail |-> "ok"]

\* The conversions of a webhook request (OfflineConversionItem): one
\* identified by client_id, one identified by user_id.
ItemA == [client_id |-> "c1", user_id |-> NULL, target |-> "purchase",
          date_time |-> "2025-07-01T12:00:00"]
ItemB == [client_id |-> NULL, user_id |-> "u1", target |-> "purchase",
          date_time |-> "2025-07-01T12:00:00"]
ConversionLists == {<<>>, <<ItemA, ItemB>>}

\* save_webhook_conversions: the row inserted in webhook_batches.
batch_data(batch_id, webhook_id, conversions) ==
    [id |-> batch_id, webhook_id |-> webhook_id,
     counter_id |-> get_webhook(webhook_id).counter_id,
     status |-> "pending", total |-> Len(conversions), processed |-> 0,
     metrika_upload_id |-> NoUploadId, errors |-> <<>>]

\* update_webhook_batch_status: UPDATE webhook_batches SET status (and
\* metrika_upload_id, processed, errors when given) WHERE id = batch_id.  An
\* optional value is <<>> (None) or <<v>>; errors is an optional list.
update_webhook_batch_status(wb, batch_id, status, metrika_upload_id, processed, errors) ==
    IF batch_id \notin 1..Len(wb) THEN wb
    ELSE [wb EXCEPT ![batch_id] =
            [@ EXCEPT !.status = status,
                      !.metrika_upload_id =
                          IF metrika_upload_id # <<>> THEN metrika_upload_id[1] ELSE @,
                      !.processed = IF processed # <<>> THEN processed[1] ELSE @,
                      !.errors = IF errors # <<>> THEN errors ELSE @]]

\* Mutant: the empty list is saved as a batch like any other.
receive_precondition_allows_empty(webhook_id, x_webhook_secret, conversions) ==
    verify_webhook_secret(webhook_id, x_webhook_secret)

\* receive_offline_conversions before anything is saved: the dependency
\* verify_webhook_secret, then the check of the list.
receive_precondition(webhook_id, x_webhook_secret, conversions) ==
    LET verified == verify_webhook_secret(webhook_id, x_webhook_secret) IN
    IF verified.code # 200 THEN verified
    ELSE IF conversions = <<>> THEN [code |-> 400, detail |-> "No conversions provided"]
    ELSE verified

\* receive_offline_conversions up to the insert of the batch row: the request
\* is rejected, or save_webhook_conversions inserts the batch row under a
\* fresh id; when the insert raises the client gets 500.
receive_offline_conversions(w, secret, conversions) ==
    /\ NoRequestInFlight
    /\ LET pre == receive_precondition(w, secret, conversions)
           batch_id == Len(webhook_batches) + 1 IN
         IF pre.code # 200
           THEN /\ http' = Response("webhook", w, pre.code, pre.detail)
                /\ UNCHANGED webhook_batches
           ELSE /\ batch_id \in BatchIds
                /\ \/ /\ webhook_batches' =
                            Append(webhook_batches, batch_data(batch_id, w, conversions))
                      /\ http' = [op |-> "webhook", stage |-> "insert_items", t |-> w,
                                  batch_id |-> batch_id, conversions |-> conversions]
                   \/ /\ http' = Response("webhook", w, 500,
                                          "Error processing webhook conversions")
                      /\ UNCHANGED webhook_batches
    /\ UNCHANGED <<tasks, results, run, exports, uploads, metrika, pollers, poll, calc, fmt,
                   webhooks, webhook_conversions, process, status_calls,
                   queries, uploadings>>

\* save_webhook_conversions, the insert of the items, and the rest of
\* receive_offline_conversions: process_webhook_batch is scheduled and the
\* batch accepted; when the insert raises the client gets 500 and nothing is
\* scheduled (the batch row stays).
save_webhook_conversions ==
    /\ http.op = "webhook" /\ http.stage = "insert_items"
    /\ \/ /\ webhook_conversions' =
                [webhook_conversions EXCEPT ![http.batch_id] = http.conversions]
          /\ process' = [process EXCEPT ![http.batch_id] = [pc |-> "start"]]
          /\ http' = [op |-> "webhook", stage |-> "response", t |-> http.t,
                      code |-> 200, detail |-> "accepted",
                      batch_id |-> http.batch_id,
                      accepted_count |-> Len(http.conversions)]
       \/ /\ http' = Response("webhook", http.t, 500,
                              "Error processing webhook conversions")
          /\ UNCHANGED <<webhook_conversions, process>>
    /\ UNCHANGED <<tasks, results, run, exports, uploads, metrika, pollers, poll, calc, fmt,
                   webhooks, webhook_batches, status_calls,
                   queries, uploadings>>

\* prepare_conversions_csv: the header line and one line per conversion that
\* has a client_id, a target and a date_time (the stored date_time is the
\* ISO text of a datetime, which parses); the others are skipped.
RECURSIVE prepare_rows(_)
prepare_rows(conversions) ==
    IF conversions = <<>> THEN <<>>
    ELSE LET conv == Head(conversions) IN
         (IF ~Truthy(conv.client_id) \/ ~Truthy(conv.target) \/ ~Truthy(conv.date_time)
            THEN <<>>
            ELSE << <<conv.client_id, conv.target, 1751371200>> >>)
         \o prepare_rows(Tail(conversions))

prepare_conversions_csv(conversions) ==
    [header |-> <<"ClientId", "Target", "DateTime">>, rows |-> prepare_rows(conversions)]

\* process_webhook_batch up to the upload: the batch, its webhook and its
\* items are read and the CSV prepared.
process_start(b) ==
    /\ process[b].pc = "start"
    /\ process' = [process EXCEPT ![b] =
            [pc |-> "upload",
             csv |-> prepare_conversions_csv(get_webhook_conversions(b))]]
    /\ UNCHANGED <<tasks, results, run, exports, http, uploads, metrika, pollers, poll,
                   calc, fmt, webhooks, webhook_batches, webhook_conversions, status_calls,
                   queries, uploadings>>

\* upload_conversions_to_metrika: the provider takes the file and assigns an
\* upload id, or the call raises and the except clause takes over.
process_upload(b) ==
    /\ process[b].pc = "upload"
    /\ \/ /\ metrika' = Append(metrika, [task_id |-> NoTaskId, csv |-> process[b].csv])
          /\ uploadings' = [uploadings EXCEPT ![Len(metrika) + 1] = "UPLOADED"]
          /\ process' = [process EXCEPT ![b] =
                  [pc |-> "mark_uploaded", metrika_upload_id |-> Len(metrika) + 1]]
       \/ /\ process' = [process EXCEPT ![b] = [pc |-> "mark_error", exc |-> "API error"]]
          /\ UNCHANGED <<metrika, uploadings>>
    /\ UNCHANGED <<tasks, results, run, exports, http, uploads, pollers, poll, calc, fmt,
                   webhooks, webhook_batches, webhook_conversions, status_calls,
                   queries>>

\* process_webhook_batch after the upload: the batch becomes uploaded with
\* the provider's upload id; when the update raises the except clause takes
\* over.
process_mark_uploaded(b) ==
    /\ process[b].pc = "mark_uploaded"
    /\ \/ /\ webhook_batches' = update_webhook_batch_status(webhook_batches, b,
                    "uploaded", <<process[b].metrika_upload_id>>, <<0>>, <<>>)
          /\ process' = [process EXCEPT ![b] = [pc |-> "returned"]]
       \/ /\ process' = [process EXCEPT ![b] = [pc |-> "mark_error", exc |-> "APIError"]]
          /\ UNCHANGED webhook_batches
    /\ UNCHANGED <<tasks, results, run, exports, http, uploads, metrika, pollers, poll,
                   calc, fmt, webhooks, webhook_conversions, status_calls,
                   queries, uploadings>>

\* process_webhook_batch, the except clause: the batch becomes error with
\* str(e); when this update raises the exception leaves the task.
process_mark_error(b) ==
    /\ process[b].pc = "mark_error"
    /\ \/ /\ webhook_batches' = update_webhook_batch_status(webhook_batches, b,
                    "error", <<>>, <<>>, << <<process[b].exc>> >>)
          /\ process' = [process EXCEPT ![b] = [pc |-> "returned"]]
       \/ /\ process' = [process EXCEPT ![b] = [pc |-> "raised"]]
          /\ UNCHANGED webhook_batches
    /\ UNCHANGED <<tasks, results, run, exports, http, uploads, metrika, pollers, poll,
                   calc, fmt, webhooks, webhook_conversions, status_calls,
                   queries, uploadings>>

\* One step of the background processing of batch b.
ProcessStep(b) ==
    \/ process_start(b)
    \/ process_upload(b)
    \/ process_mark_uploaded(b)
    \/ process_mark_error(b)

\* The statuses the provider reports for an upload of offline conversions
\* ("" when its answer has no status), some of them outside the table of
\* check_webhook_batch_status.
MetrikaStatuses ==
    {"PREPARED", "UPLOADED", "EXPORTED", "MATCHED", "PROCESSED", "LINKAGE_FAILURE",
     "QUEUED", ""}

\* line_quantity of the provider's answer.
LineQuantities == {1}

\* Mutant: a status outside the table leaves the batch as it is stored.
status_mapping_keeps_stored(metrika_status) ==
    CASE metrika_status \in {"PREPARED", "UPLOADED"} -> "uploaded"
      [] metrika_status \in {"EXPORTED", "MATCHED"} -> "processing"
      [] metrika_status = "PROCESSED" -> "completed"
      [] metrika_status = "LINKAGE_FAILURE" -> "error"
      [] OTHER -> "uploaded"

\* status_mapping.get(metrika_status, 'processing')
status_mapping(metrika_status) ==
    CASE metrika_status \in {"PREPARED", "UPLOADED"} -> "uploaded"
      [] metrika_status \in {"EXPORTED", "MATCHED"} -> "processing"
      [] metrika_status = "PROCESSED" -> "completed"
      [] metrika_status = "LINKAGE_FAILURE" -> "error"
      [] OTHER -> "processing"

\* The status_info of a check that raised, as the handler reads it:
\* status error, and the defaults 0 and [] for processed and errors.
ErrorInfo ==
    [status |-> "error", processed |-> 0, errors |-> << <<>> >>, metrika_status |-> NULL]

\* The stored values of a batch as a status_info.
stored_status_info(batch) ==
    [status |-> batch.status, processed |-> batch.processed, errors |-> batch.errors,
     metrika_status |-> NULL]

\* The answer of get_offline_conversion_status built from a status_info
\* (metrika_status is in the status_info only; the client is not sent it).
StatusResponse(w, batch_id, batch, status_info) ==
    [op |-> "batch_status", stage |-> "response", t |-> w, code |-> 200,
     detail |-> "status", batch_id |-> batch_id,
     status |-> status_info.status, processed |-> status_info.processed,
     errors |-> status_info.errors, total |-> batch.total,
     metrika_upload_id |-> batch.metrika_upload_id,
     metrika_status |-> status_info.metrika_status]

\* Mutant: the owner of the batch is not compared with the webhook.
batch_status_precondition_any_owner(webhook_id, x_webhook_secret, batch) ==
    LET verified == verify_webhook_secret(webhook_id, x_webhook_secret) IN
    IF verified.code # 200 THEN verified
    ELSE IF batch.status = "absent" THEN [code |-> 404, detail |-> "Batch not found"]
    ELSE verified

\* get_offline_conversion_status before the status is looked at: the
\* dependency verify_webhook_secret, then the batch must exist and belong to
\* the webhook of the path.
batch_status_precondition(webhook_id, x_webhook_secret, batch) ==
    LET verified == verify_webhook_secret(webhook_id, x_webhook_secret) IN
    IF verified.code # 200 THEN verified
    ELSE IF batch.status = "absent" THEN [code |-> 404, detail |-> "Batch not found"]
    ELSE IF batch.webhook_id # webhook_id
      THEN [code |-> 403, detail |-> "Batch does not belong to this webhook"]
    ELSE verified

\* get_offline_conversion_status up to the call of check_webhook_batch_status:
\* the request is rejected, answered from the stored row, or (the batch is
\* uploaded and has an upload id) goes on to ask the provider.
get_offline_conversion_status(w, secret, batch_id) ==
    /\ NoRequestInFlight
    /\ LET batch == get_webhook_batch(batch_id)
           pre == batch_status_precondition(w, secret, batch) IN
         http' = IF pre.code # 200
                   THEN Response("batch_status", w, pre.code, pre.detail)
                 ELSE IF batch.status = "uploaded" /\ batch.metrika_upload_id # NoUploadId
                   THEN [op |-> "batch_status", stage |-> "check", t |-> w,
                         batch_id |-> batch_id, batch |-> batch]
                 ELSE StatusResponse(w, batch_id, batch, stored_status_info(batch))
    /\ UNCHANGED <<tasks, results, run, exports, uploads, metrika, pollers, poll, calc, fmt,
                   hookvars>>

\* check_webhook_batch_status up to the provider's answer: the batch is read
\* again; when it is still uploaded, check_metrika_upload_status asks the
\* provider, which answers with a status and a line count, or the call
\* raises and the status_info is the error.
check_metrika_upload_status(metrika_status, line_quantity) ==
    /\ http.op = "batch_status" /\ http.stage = "check"
    /\ LET batch == get_webhook_batch(http.batch_id) IN
         IF batch.status # "uploaded"
           THEN /\ http' = StatusResponse(http.t, http.batch_id, http.batch,
                                          stored_status_info(batch))
                /\ UNCHANGED status_calls
           ELSE /\ status_calls' = status_calls \cup {batch.metrika_upload_id}
                /\ \/ http' = [op |-> "batch_status", stage |-> "update", t |-> http.t,
                               batch_id |-> http.batch_id, batch |-> http.batch,
                               metrika_status |-> metrika_status,
                               processed |-> line_quantity]
                   \/ http' = StatusResponse(http.t, http.batch_id, http.batch,
                                  ErrorInfo)
    /\ UNCHANGED <<tasks, results, run, exports, uploads, metrika, pollers, poll, calc, fmt,
                   webhooks, webhook_batches, webhook_conversions, process, queries,
                   uploadings>>

\* check_webhook_batch_status after the provider's answer: the provider's
\* status is mapped and the batch updated with it, and the mapped status
\* answered; when the update raises the status_info is the error.
check_webhook_batch_status ==
    /\ http.op = "batch_status" /\ http.stage = "update"
    /\ LET new_status == status_mapping(http.metrika_status)
           errors == IF new_status = "error"
                       THEN << <<"Metrika status", http.metrika_status>> >> ELSE <<>> IN
         \/ /\ webhook_batches' = update_webhook_batch_status(webhook_batches,
                    http.batch_id, new_status, <<>>, <<http.processed>>, errors)
            /\ http' = StatusResponse(http.t, http.batch_id, http.batch,
                          [status |-> new_status, processed |-> http.processed,
                           errors |-> errors, metrika_status |-> http.metrika_status])
         \/ /\ http' = StatusResponse(http.t, http.batch_id, http.batch,
                          ErrorInfo)
            /\ UNCHANGED webhook_batches
    /\ UNCHANGED <<tasks, results, run, exports, uploads, metrika, pollers, poll, calc, fmt,
                   webhooks, webhook_conversions, process, status_calls,
                   queries, uploadings>>

\* ------------------------------------------- status queries that overlap
\* Each client request runs get_offline_conversion_status with locals of its
\* own (queries[q]); the requests interleave at the awaits of the handler.

\* The provider works on an upload: it is matched, and then processed or
\* failed; PREPARED and EXPORTED, which the table of
\* check_webhook_batch_status maps like UPLOADED and MATCHED, are passed over.
provider_advances(u) ==
    /\ uploadings[u] \in {"UPLOADED", "MATCHED"}
    /\ \E status \in IF uploadings[u] = "UPLOADED" THEN {"MATCHED"}
                      ELSE {"PROCESSED", "LINKAGE_FAILURE"} :
          uploadings' = [uploadings EXCEPT ![u] = status]
    /\ UNCHANGED <<tasks, results, run, exports, http, uploads, metrika, pollers, poll,
                   calc, fmt, webhooks, webhook_batches, webhook_conversions, process,
                   status_calls, queries>>

\* The answer of a status query: the status_info the handler answers with.
Answer(q, status_info) ==
    queries' = [queries EXCEPT ![q] =
                  [pc |-> "response", batch_id |-> queries[q].batch_id,
                   status |-> status_info.status]]

\* get_offline_conversion_status of a client that sends the secret of the
\* batch's webhook, up to the call of check_webhook_batch_status: the batch
\* is read; when it is uploaded and has an upload id the handler goes on to
\* check_webhook_batch_status, otherwise it answers from the stored row.
query_start(q, batch_id) ==
    /\ queries[q].pc \in {"idle", "response"}
    /\ LET batch == get_webhook_batch(batch_id)
           pre == batch_status_precondition(batch.webhook_id,
                      get_webhook(batch.webhook_id).secret, batch) IN
         /\ batch.status # "absent"
         /\ pre.code = 200
         /\ queries' = [queries EXCEPT ![q] =
                IF batch.status = "uploaded" /\ batch.metrika_upload_id # NoUploadId
                  THEN [pc |-> "check", batch_id |-> batch_id]
                  ELSE [pc |-> "response", batch_id |-> batch_id,
                        status |-> batch.status]]
    /\ UNCHANGED <<tasks, results, run, exports, http, uploads, metrika, pollers, poll,
                   calc, fmt, webhooks, webhook_batches, webhook_conversions, process,
                   status_calls, uploadings>>

\* check_webhook_batch_status up to the request to the provider: the batch
\* is read again and answered from the stored row unless it is uploaded.
query_check(q) ==
    /\ queries[q].pc = "check"
    /\ LET batch == get_webhook_batch(queries[q].batch_id) IN
         IF batch.status # "uploaded"
           THEN Answer(q, stored_status_info(batch))
           ELSE queries' = [queries EXCEPT ![q] =
                    [pc |-> "call", batch_id |-> queries[q].batch_id,
                     metrika_upload_id |-> batch.metrika_upload_id]]
    /\ UNCHANGED <<tasks, results, run, exports, http, uploads, metrika, pollers, poll,
                   calc, fmt, webhooks, webhook_batches, webhook_conversions, process,
                   status_calls, uploadings>>

\* check_metrika_upload_status of a query: the provider answers with the
\* status the upload has at that moment, or (returns = FALSE) the call
\* raises and the status_info is the error.
query_call(q, returns) ==
    /\ queries[q].pc = "call"
    /\ status_calls' = status_calls \cup {queries[q].metrika_upload_id}
    /\ IF returns
         THEN queries' = [queries EXCEPT ![q] =
                [pc |-> "update", batch_id |-> queries[q].batch_id,
                 metrika_status |-> uploadings[queries[q].metrika_upload_id]]]
         ELSE Answer(q, ErrorInfo)
    /\ UNCHANGED <<tasks, results, run, exports, http, uploads, metrika, pollers, poll,
                   calc, fmt, webhooks, webhook_batches, webhook_conversions, process,
                   uploadings>>

\* check_webhook_batch_status of a query after the provider's answer: the
\* status is mapped and written to the batch, whatever the batch holds by
\* now; when the update raises (returns = FALSE) the status_info is the
\* error.
query_update(q, returns) ==
    /\ queries[q].pc = "update"
    /\ LET new_status == status_mapping(queries[q].metrika_status)
           errors == IF new_status = "error"
                       THEN << <<"Metrika status", queries[q].metrika_status>> >>
                       ELSE <<>> IN
         IF returns
           THEN /\ webhook_batches' = update_webhook_batch_status(webhook_batches,
                        queries[q].batch_id, new_status, <<>>, <<1>>, errors)
                /\ Answer(q, [status |-> new_status])
           ELSE /\ Answer(q, ErrorInfo)
                /\ UNCHANGED webhook_batches
    /\ UNCHANGED <<tasks, results, run, exports, http, uploads, metrika, pollers, poll,
                   calc, fmt, webhooks, webhook_conversions, process, status_calls,
                   uploadings>>

\* One step of the status query in slot q; with returns = TRUE the provider
\* and the store answer it.
QueryStep(q, returns) ==
    \/ \E batch_id \in BatchIds : query_start(q, batch_id)
    \/ query_check(q)
    \/ query_call(q, returns)
    \/ query_update(q, returns)

\* ------------------------------------------------------------ the system
\* The webhook tables are empty and no batch is being processed.
NoHooks ==
    /\ webhooks = [w \in WebhookIds |-> NoWebhook]
    /\ webhook_batches = <<>>
    /\ webhook_conversions = [b \in BatchIds |-> <<>>]
    /\ process = [b \in BatchIds |-> NoProcess]
    /\ status_calls = {}
    /\ queries = [q \in QueryIds |-> NoQuery]
    /\ uploadings = [u \in BatchIds |-> NULL]

Init ==
    /\ tasks = [t \in TaskIds |-> NoTask]
    /\ results = [t \in TaskIds |-> NoResult]
    /\ run = [t \in TaskIds |-> NoRun]
    /\ exports = [t \in TaskIds |-> [src \in Sources |-> NoExport]]
    /\ http = Idle
    /\ uploads = <<>>
    /\ metrika = <<>>
    /\ pollers = {}
    /\ poll = [u \in UploadIds |-> NoPoll]
    /\ NoHooks
    /\ calc = [t \in TaskIds |-> NoCalc]
    /\ fmt = NoCall

Next ==
    \/ \E req \in TaskRequests : CreateTask(req)
    \/ \E t \in TaskIds : RunStep(t)
    \/ \E t \in TaskIds : store_raises(t)
    \/ \E t \in TaskIds, limit \in Limits, offset \in Offsets : ResultRequest(t, limit, offset)
    \/ ResultAnswer
    \/ \E t \in TaskIds : BulkRequest(t)
    \/ BulkGetResult
    \/ BulkSend
    \/ BulkCreateUpload

Spec == Init /\ [][Next]_vars

\* The job lifecycle alone: the handlers that only read the store are left
\* out (they change none of tasks, results, run, exports).
JobNext ==
    \/ \E req \in TaskRequests : CreateTask(req)
    \/ \E t \in TaskIds : RunStep(t)
    \/ \E t \in TaskIds : store_raises(t)

JobSpec == Init /\ [][JobNext]_vars

\* The upload lifecycle alone, from a store that holds one finished job: job
\* 1 is done with the day's visits stored as its result (a state the job
\* lifecycle reaches), its run has returned and its exports are processed
\* and cleaned.
UploadInit ==
    /\ LET r == [i \in 1..MaxRows |-> Visit(i)] IN
         /\ tasks = [t \in TaskIds |->
                IF t # 1 THEN NoTask
                ELSE [create_task([date |-> "2025-07-01", token |-> "tok",
                                   has_counter |-> TRUE, counter |-> 92342184])
                        EXCEPT !.status = "done", !.progress = 100,
                               !.message = "ready", !.finished_at = Now]]
         /\ results = [t \in TaskIds |-> IF t # 1 THEN NoResult ELSE Stored(r)]
    /\ run = [t \in TaskIds |-> IF t # 1 THEN NoRun ELSE [NoRun EXCEPT !.pc = "returned"]]
    /\ exports = [t \in TaskIds |-> [src \in Sources |->
                    IF t # 1 THEN NoExport
                    ELSE [made |-> TRUE, settled |-> "processed", cleaned |-> TRUE]]]
    /\ http = Idle
    /\ uploads = <<>>
    /\ metrika = <<>>
    /\ pollers = {}
    /\ poll = [u \in UploadIds |-> NoPoll]
    /\ NoHooks
    /\ calc = [t \in TaskIds |-> NoCalc]
    /\ fmt = NoCall

UploadNext ==
    \/ \E t \in TaskIds : BulkRequest(t)
    \/ BulkGetResult
    \/ BulkSend
    \/ BulkCreateUpload
    \/ \E req \in SingleRequests : SingleSend(req)
    \/ SingleCreateUpload
    \/ \E u \in UploadIds : PollStep(u)
    \/ \E u \in UploadIds : UploadStatusRequest(u)

UploadSpec == UploadInit /\ [][UploadNext]_vars

\* The single-conversion endpoint alone, for every body a client may send.
SingleNext ==
    \/ \E req \in SingleBodies : SingleSend(req)
    \/ SingleCreateUpload

SingleSpec == Init /\ [][SingleNext]_vars

\* The webhook endpoints alone, from a store that holds MaxWebhooks webhooks
\* (the last of them switched off) and no batch.
WebhookInit ==
    /\ tasks = [t \in TaskIds |-> NoTask]
    /\ results = [t \in TaskIds |-> NoResult]
    /\ run = [t \in TaskIds |-> NoRun]
    /\ exports = [t \in TaskIds |-> [src \in Sources |-> NoExport]]
    /\ http = Idle
    /\ uploads = <<>>
    /\ metrika = <<>>
    /\ pollers = {}
    /\ poll = [u \in UploadIds |-> NoPoll]
    /\ webhooks = [w \in WebhookIds |->
                      [create_webhook(w) EXCEPT !.is_active = (w # MaxWebhooks)]]
    /\ webhook_batches = <<>>
    /\ webhook_conversions = [b \in BatchIds |-> <<>>]
    /\ process = [b \in BatchIds |-> NoProcess]
    /\ status_calls = {}
    /\ queries = [q \in QueryIds |-> NoQuery]
    /\ uploadings = [u \in BatchIds |-> NULL]
    /\ calc = [t \in TaskIds |-> NoCalc]
    /\ fmt = NoCall

\* The webhook ids and batch ids of request paths: those of the store and
\* one that names no row.
WebhookPaths == 1..(MaxWebhooks + 1)
BatchPaths == 1..(MaxBatches + 1)

WebhookNext ==
    \/ \E w \in WebhookPaths, secret \in SecretHeaders, conversions \in ConversionLists :
          receive_offline_conversions(w, secret, conversions)
    \/ save_webhook_conversions
    \/ \E b \in BatchIds : ProcessStep(b)
    \/ \E w \in WebhookPaths, secret \in SecretHeaders, b \in BatchPaths :
          get_offline_conversion_status(w, secret, b)
    \/ \E metrika_status \in MetrikaStatuses, line_quantity \in LineQuantities :
          check_metrika_upload_status(metrika_status, line_quantity)
    \/ check_webhook_batch_status

WebhookSpec == WebhookInit /\ [][WebhookNext]_vars

\* The upload lifecycle under fair scheduling: a scheduled poller keeps
\* taking steps (its awaits return).
UploadLiveSpec ==
    /\ UploadInit
    /\ [][UploadNext]_vars
    /\ \A u \in UploadIds : WF_vars(PollStep(u))

\* A store in which every job has finished and MaxUploads single conversions
\* were submitted, their upload rows inserted and their pollers scheduled
\* (a state the handlers reach); no poller has started.
PollInit ==
    /\ LET r == [i \in 1..MaxRows |-> Visit(i)] IN
         /\ tasks = [t \in TaskIds |->
                [create_task([date |-> "2025-07-01", token |-> "tok",
                              has_counter |-> TRUE, counter |-> 92342184])
                   EXCEPT !.status = "done", !.progress = 100,
                          !.message = "ready", !.finished_at = Now]]
         /\ results = [t \in TaskIds |-> Stored(r)]
    /\ run = [t \in TaskIds |-> [NoRun EXCEPT !.pc = "returned"]]
    /\ exports = [t \in TaskIds |-> [src \in Sources |->
                    [made |-> TRUE, settled |-> "processed", cleaned |-> TRUE]]]
    /\ http = [op |-> "single", stage |-> "response", t |-> NoTaskId,
               code |-> 200, detail |-> "uploaded", upload_id |-> MaxUploads]
    /\ uploads = [u \in UploadIds |-> create_conversion_upload(u, u, NoTaskId, 1)]
    /\ metrika = [u \in UploadIds |->
                    [task_id |-> NoTaskId,
                     csv |-> format_single_conversion_csv("4plus",
                                 UnixTime(MetrikaTime),
                                 "c1", NULL, NULL, NULL, "10.0", NULL)]]
    /\ pollers = UploadIds
    /\ poll = [u \in UploadIds |-> NoPoll]
    /\ NoHooks
    /\ calc = [t \in TaskIds |-> NoCalc]
    /\ fmt = NoCall

\* Concurrent jobs, and concurrent pollers: the job lifecycle from the empty
\* store, and the pollers from a store of finished jobs and scheduled uploads.
FrameInit == Init \/ PollInit

FrameNext ==
    \/ \E req \in TaskRequests : CreateTask(req)
    \/ \E t \in TaskIds : RunStep(t)
    \/ \E t \in TaskIds : store_raises(t)
    \/ \E u \in UploadIds : PollStep(u)

FrameSpec == FrameInit /\ [][FrameNext]_vars

\* The job lifecycle when every store call returns and scheduling is fair:
\* a scheduled run keeps taking steps (WF), and each export its run keeps
\* polling eventually settles in a status it never leaves (SF: the poll is
\* not enabled during the sleeps).
LiveNext ==
    \/ \E req \in TaskRequests : CreateTask(req)
    \/ \E t \in TaskIds : RunStep(t)

Settle(t) ==
    \E src \in Sources, status \in ExportStatuses : poll_export(t, src, status, TRUE)

LiveSpec ==
    /\ Init
    /\ [][LiveNext]_vars
    /\ \A t \in TaskIds : WF_vars(RunStep(t)) /\ SF_vars(Settle(t))

\* The store and the provider with nothing in them and no request in flight.
EmptyStore ==
    /\ tasks = [t \in TaskIds |-> NoTask]
    /\ results = [t \in TaskIds |-> NoResult]
    /\ run = [t \in TaskIds |-> NoRun]
    /\ exports = [t \in TaskIds |-> [src \in Sources |-> NoExport]]
    /\ http = Idle
    /\ uploads = <<>>
    /\ metrika = <<>>
    /\ pollers = {}
    /\ poll = [u \in UploadIds |-> NoPoll]
    /\ NoHooks

\* dateTime texts: the provider's form, ISO forms with "Z", with a positive
\* and with a negative UTC offset, and a text that is no date.
DateTimeTexts ==
    {MetrikaTime,
     <<"2025-07-01", "T", "12:00:00", "Z">>,
     <<"2025-07-01", "T", "12:00:00", "+", "03:00">>,
     <<"2025-07-01", "T", "12:00:00", "-", "03:00">>,
     <<"yesterday">>}

\* Visits as format_conversion_csv may be handed them: dicts with or without
\* the keys clientId and dateTime.
VisitShapes ==
    [visitId : {1}, clientId : {"c1", "c2"}, dateTime : DateTimeTexts, visitDuration : {200}]
      \cup [visitId : {1}, dateTime : DateTimeTexts, visitDuration : {200}]
      \cup [visitId : {1}, clientId : {"c1", "c2"}, visitDuration : {200}]
      \cup [visitId : {1}, visitDuration : {200}]

\* format_conversion_csv(visits, target) called and run to its end.
format_call ==
    /\ fmt.pc = "call"
    /\ LET out == format_conversion_csv(fmt.visits, fmt.target) IN
         fmt' = [pc |-> IF out.raised # NULL THEN "raised" ELSE "returned",
                 visits |-> fmt.visits, target |-> fmt.target, out |-> out]
    /\ UNCHANGED <<tasks, results, run, exports, http, uploads, metrika, pollers, poll,
                   hookvars, calc>>

\* format_conversion_csv on every list of at most MaxRows visits.
CsvInit ==
    /\ EmptyStore
    /\ calc = [t \in TaskIds |-> NoCalc]
    /\ \E visits \in UNION {[1..n -> VisitShapes] : n \in 0..MaxRows} : fmt = [pc |-> "call", visits |-> visits, target |-> "4plus"]

CsvSpec == CsvInit /\ [][format_call]_vars

\* Rows of df on either side of each bound of the rule, of every device
\* class (0 unknown, 1 desktop, 2 mobile, 3 tablet).
FeatureRows ==
    {[visitId |-> 0, clientId |-> "c", dateTime |-> MetrikaTime,
      visitDuration |-> r[1], pageViews |-> r[2], slots |-> r[3], device |-> device,
      slot_range |-> 0, median_pause |-> 0, mean_pause |-> 0, std_pause |-> 0] :
        r \in {<<180, 5, 5>>, <<179, 5, 5>>, <<180, 4, 5>>, <<180, 5, 4>>},
        device \in 0..3}

\* What predict_proba may give for a row, in hundredths: below every
\* threshold, and between the default thresholds and the fallback.
Probas == {30, 49}

\* level4_thresholds.json: absent, with both device classes, with one.
ThresholdsFiles ==
    {<<>>, <<[desktop |-> 20, mobile |-> 20]>>, <<[desktop |-> 20]>>}

\* Job 1 is running and its exports were downloaded and cleaned; run_task is
\* inside calculate_level4_visits.
Computing ==
    /\ tasks = [t \in TaskIds |->
           IF t = 1
             THEN [create_task([date |-> "2025-07-01", token |-> "tok",
                                has_counter |-> TRUE, counter |-> 92342184])
                     EXCEPT !.status = "running", !.progress = 10,
                            !.message = "calculating"]
             ELSE NoTask]
    /\ results = [t \in TaskIds |-> NoResult]
    /\ run = [t \in TaskIds |-> IF t = 1 THEN [NoRun EXCEPT !.pc = "compute"] ELSE NoRun]
    /\ exports = [t \in TaskIds |-> [src \in Sources |->
                    IF t = 1 THEN [made |-> TRUE, settled |-> "processed", cleaned |-> TRUE]
                    ELSE NoExport]]
    /\ http = Idle
    /\ uploads = <<>>
    /\ metrika = <<>>
    /\ pollers = {}
    /\ poll = [u \in UploadIds |-> NoPoll]
    /\ NoHooks
    /\ fmt = NoCall

\* calculate_level4_visits with df built: every df of at most MaxRows rows
\* (visitId is the position of the row), every set of model files, every
\* thresholds file and every answer of the models.
ClassifyInit ==
    /\ Computing
    /\ \E n \in 0..MaxRows :
         \E rows \in [1..n -> FeatureRows], proba \in [1..n -> Probas],
            models \in SUBSET {"desktop", "mobile"}, file \in ThresholdsFiles :
           calc = [t \in TaskIds |->
                     IF t = 1
                       THEN [pc |-> "classify", visits_raw |-> <<>>, hits_raw |-> <<>>,
                             df |-> [i \in 1..n |->
                                       [rows[i] EXCEPT !.visitId = i,
                                                       !.clientId = <<"client", i>>]],
                             models |-> models, thresholds_file |-> file,
                             proba |-> proba]
                       ELSE NoCalc]

\* The times of the hits, in seconds: within one 15-second slot, on either
\* side of its end, and two slots on.
HitTimes == {0, 14, 16, 30}

\* The hits of a day: none, one, or two of visit 1; the first with or without
\* a device category.
HitLists ==
    {<<>>}
      \cup {<<[watchID |-> "w1", visit |-> 1, time |-> t1, deviceCategory |-> cat]>> :
               t1 \in HitTimes, cat \in {"", "2"}}
      \cup {<<[watchID |-> "w1", visit |-> 1, time |-> t1, deviceCategory |-> cat],
              [watchID |-> "w2", visit |-> 1, time |-> t2, deviceCategory |-> "1"]>> :
               t1 \in HitTimes, t2 \in HitTimes, cat \in {"", "2"}}

\* calculate_level4_visits with the exports downloaded: no visit at all, or
\* one visit that lists at most MaxEvents watch ids, among them one (w9) that
\* no hit carries; both model files exist, there is no thresholds file.
FeatureInit ==
    /\ Computing
    /\ \E n \in 0..MaxEvents :
         \E watchIDs \in [1..n -> {"w1", "w2", "w9"}], hits_raw \in HitLists,
            visits \in 0..1 :
           /\ visits = 0 => n = 0 /\ hits_raw = <<>>
           /\ calc = [t \in TaskIds |->
                     IF t = 1
                       THEN [pc |-> "features",
                             visits_raw |-> [i \in 1..visits |->
                                              [visitID |-> 1, clientID |-> <<"client", 1>>,
                                               watchIDs |-> watchIDs,
                                               dateTime |-> MetrikaTime,
                                               visitDuration |-> 100, pageViews |-> 1]],
                             hits_raw |-> hits_raw, df |-> <<>>,
                             models |-> {"desktop", "mobile"}, thresholds_file |-> <<>>,
                             proba |-> [i \in 1..visits |-> 30]]
                       ELSE NoCalc]

CalcInit == FeatureInit \/ ClassifyInit

CalcNext ==
    \/ \E t \in TaskIds : prepare_features(t)
    \/ \E t \in TaskIds : classify(t)
    \/ \E t \in TaskIds : run_task_save(t)
    \/ \E t \in TaskIds : run_task_done(t)
    \/ \E t \in TaskIds : run_task_failed(t)

CalcSpec == CalcInit /\ [][CalcNext]_vars

\* A webhook submission of two conversions was accepted: its batch is stored
\* pending with its items, and process_webhook_batch is scheduled for it.
ReconcileInit ==
    /\ tasks = [t \in TaskIds |-> NoTask]
    /\ results = [t \in TaskIds |-> NoResult]
    /\ run = [t \in TaskIds |-> NoRun]
    /\ exports = [t \in TaskIds |-> [src \in Sources |-> NoExport]]
    /\ http = [op |-> "webhook", stage |-> "response", t |-> 1, code |-> 200,
               detail |-> "accepted", batch_id |-> 1, accepted_count |-> 2]
    /\ uploads = <<>>
    /\ metrika = <<>>
    /\ pollers = {}
    /\ poll = [u \in UploadIds |-> NoPoll]
    /\ webhooks = [w \in WebhookIds |->
                      [create_webhook(w) EXCEPT !.is_active = (w # MaxWebhooks)]]
    /\ webhook_batches = <<batch_data(1, 1, <<ItemA, ItemB>>)>>
    /\ webhook_conversions = [b \in BatchIds |-> IF b = 1 THEN <<ItemA, ItemB>> ELSE <<>>]
    /\ process = [b \in BatchIds |-> IF b = 1 THEN [pc |-> "start"] ELSE NoProcess]
    /\ status_calls = {}
    /\ queries = [q \in QueryIds |-> NoQuery]
    /\ uploadings = [u \in BatchIds |-> NULL]
    /\ calc = [t \in TaskIds |-> NoCalc]
    /\ fmt = NoCall

\* The processing of the batch, the provider, and the status queries of
\* MaxQueries clients at a time.
ReconcileNext ==
    \/ \E b \in BatchIds : ProcessStep(b)
    \/ \E u \in BatchIds : provider_advances(u)
    \/ \E q \in QueryIds, returns \in BOOLEAN : QueryStep(q, returns)

ReconcileSpec == ReconcileInit /\ [][ReconcileNext]_vars

\* The same when every call of a status query returns and scheduling is
\* fair: each client keeps sending status queries, and each query keeps
\* taking its steps.
ReconcileLiveNext ==
    \/ \E b \in BatchIds : ProcessStep(b)
    \/ \E u \in BatchIds : provider_advances(u)
    \/ \E q \in QueryIds : QueryStep(q, TRUE)

ReconcileLiveSpec ==
    /\ ReconcileInit
    /\ [][ReconcileLiveNext]_vars
    /\ \A q \in QueryIds : WF_vars(QueryStep(q, TRUE))

\* ------------------------------------------------------------- properties
Created(t) == tasks[t] # NoTask
Ended(t) == run[t].pc \in {"returned", "raised"}

\* The status edges of the job state machine.
SpecEdges == {<<"pending", "running">>, <<"running", "done">>, <<"running", "failed">>}

StatusMoves(t, edges) ==
    (Created(t) /\ tasks'[t].status # tasks[t].status)
        => <<tasks[t].status, tasks'[t].status>> \in edges

\* C1 as stated: a job's stored status changes only along pending->running,
\* running->done and running->failed.
C1_OnlySpecEdges == [][\A t \in TaskIds : StatusMoves(t, SpecEdges)]_vars

\* C1 as amended: the status changes only along those three edges and
\* pending->failed, the latter only with the store's error recorded (the
\* update to running raised); never pending->done, never out of done or failed.
C1_StatusEdges ==
    [][\A t \in TaskIds :
          /\ StatusMoves(t, SpecEdges \cup {<<"pending", "failed">>})
          /\ (Created(t) /\ tasks[t].status = "pending" /\ tasks'[t].status = "failed")
                => tasks'[t].error = "APIError"]_vars

\* C1 witness: a job that failed straight from pending (no export was ever
\* requested for it).
C1_Witness ==
    \E t \in TaskIds :
        /\ tasks[t].status = "failed" /\ tasks[t].error = "APIError"
        /\ ~exports[t]["visits"].made /\ ~results[t].present

\* C2 as stated: a run that has ended has made its terminal transition, and
\* a job record that is done or failed is never written again.
C2_TerminalExactlyOnce ==
    [][\A t \in TaskIds :
          /\ Ended(t)' => tasks'[t].status \in Terminal
          /\ (Created(t) /\ tasks[t].status \in Terminal) => tasks'[t] = tasks[t]]_vars

C4_FailedHasNoResult ==
    \A t \in TaskIds : (Created(t) /\ tasks[t].status = "failed") => ~results[t].present

\* C5 as stated: a result request for a job whose stored status is pending
\* or running is answered "Task not finished".
C5_NotFinishedBeforeDone ==
    (/\ http.op = "result" /\ http.stage = "response"
     /\ Created(http.t) /\ tasks[http.t].status \in {"pending", "running"})
        => http.detail = "Task not finished"

\* C6 as stated: no exception leaves run_task, and a run that ended after an
\* error left the job failed with an error message.
C6_ErrorsCaught ==
    \A t \in TaskIds :
        /\ run[t].pc # "raised"
        /\ (run[t].pc = "returned" /\ tasks[t].status # "done")
              => (tasks[t].status = "failed" /\ tasks[t].error # NULL)

\* C7 as stated: every job that was created eventually reaches done or failed.
C7_EveryJobEnds ==
    \A t \in TaskIds : Created(t) ~> (tasks[t].status \in Terminal)

\* t is in the loop of wait_processed for an export that has settled in a
\* status on which the loop polls again.
PollsForever(t) ==
    \E src \in Sources :
        /\ run[t].pc \in (IF src = "visits" THEN {"wait_visits", "sleep_visits"}
                                             ELSE {"wait_hits", "sleep_hits"})
        /\ exports[t][src].settled \in
              {"created", "processing", "processed_with_errors", "awaiting_retry"}

\* C7 as amended: every job that was created eventually reaches done or
\* failed, or polls an export that settled in created, processing,
\* processed_with_errors or awaiting_retry (and then stays running).
C7_JobEndsOrPollsForever ==
    \A t \in TaskIds : Created(t) ~> (tasks[t].status \in Terminal \/ PollsForever(t))

\* C7 witness: a job that reached done after both its exports settled as
\* processed.
C7_Witness ==
    \E t \in TaskIds :
        /\ tasks[t].status = "done"
        /\ \A src \in Sources : exports[t][src].settled = "processed"

\* C8: finished_at is set exactly when the status is done or failed, and
\* error is set only when the status is failed.
C8_FinishedAtIffTerminal ==
    \A t \in TaskIds : Created(t) =>
        /\ (tasks[t].finished_at # NULL) <=> (tasks[t].status \in Terminal)
        /\ (tasks[t].error # NULL) => (tasks[t].status = "failed")

\* C8 witness: a finished job and an unfinished one side by side, the
\* failed one with its error.
C8_Witness ==
    \E t, u \in TaskIds :
        /\ tasks[t].status = "failed" /\ tasks[t].finished_at = Now /\ tasks[t].error # NULL
        /\ tasks[u].status = "running" /\ tasks[u].finished_at = NULL

\* The progress the code stores with each status.
ProgressOf(status) ==
    CASE status = "pending" -> 0
      [] status = "running" -> 10
      [] OTHER -> 100

\* C9: the stored progress is 0 when pending, 10 when running, 100 when done
\* or failed, and no step decreases it.
C9_ProgressMonotone ==
    [][\A t \in TaskIds : Created(t)' =>
          /\ tasks'[t].progress = ProgressOf(tasks'[t].status)
          /\ tasks'[t].progress \in 0..100
          /\ Created(t) => tasks'[t].progress >= tasks[t].progress]_vars

\* C9 witness: a job that has run to done, at progress 100, beside one that
\* is running, at progress 10.
C9_Witness ==
    \E t, u \in TaskIds :
        /\ tasks[t].status = "done" /\ tasks[t].progress = 100
        /\ tasks[u].status = "running" /\ tasks[u].progress = 10

\* C10 as stated: the provider holds a bulk payload, and the store an upload
\* record, only for a job whose stored status is done.
C10_BulkOnlyWhenDone ==
    /\ \A i \in 1..Len(metrika) :
          metrika[i].task_id \in TaskIds => tasks[metrika[i].task_id].status = "done"
    /\ \A i \in 1..Len(uploads) :
          uploads[i].task_id \in TaskIds => tasks[uploads[i].task_id].status = "done"

\* The requests the create-job contract rejects: no or an empty token, no
\* counter or one that is not positive, a date not of the form YYYY-MM-DD.
Malformed(req) ==
    \/ req.token \in {NULL, ""}
    \/ ~req.has_counter \/ req.counter <= 0
    \/ req.date = "20250701"

RunMoves(a) == run[a].pc # "idle" /\ run'[a] # run[a]
PollMoves(u) == poll'[u] # poll[u]

\* C13: every step of the run of task A (a store call that raises included)
\* leaves the job record and the stored result of every other task
\* unchanged, and every step of the poller of upload U leaves every other
\* upload record unchanged.
C13_Frame ==
    [][/\ \A a \in TaskIds : RunMoves(a) =>
             \A b \in TaskIds \ {a} : tasks'[b] = tasks[b] /\ results'[b] = results[b]
       /\ \A u \in UploadIds : PollMoves(u) =>
             /\ Len(uploads') = Len(uploads)
             /\ \A v \in (1..Len(uploads)) \ {u} : uploads'[v] = uploads[v]]_vars

\* C13 witness: the poller of upload 1 has written its record (the provider
\* finished that upload) while the record of upload 2, whose own poller has
\* made calls, is as it was created.
C13_Witness ==
    /\ Len(uploads) = 2
    /\ uploads[1].status = "processed" /\ poll[1].pc = "finished"
    /\ uploads[2] = create_conversion_upload(2, 2, NoTaskId, 1) /\ poll[2].calls > 0

\* The statuses of a ConversionUpload.
UploadStatuses == {"pending", "uploaded", "processing", "completed", "error"}

C15_UploadedBeforePoll ==
    \A u \in UploadIds : (poll[u].pc = "check" /\ poll[u].calls = 0) =>
        /\ u <= Len(uploads)
        /\ uploads[u].metrika_upload_id \in 1..Len(metrika)
        /\ uploads[u].status = "uploaded"

PollEnded(u) == poll[u].pc \in {"finished", "exhausted"}

\* C16: the poller of every upload makes at most max_attempts provider
\* status calls, and once scheduled it eventually ends, whatever the
\* provider answers and whichever calls raise.
C16_PollerTerminates ==
    /\ [](\A u \in UploadIds : poll[u].calls <= max_attempts)
    /\ \A u \in UploadIds : (u \in pollers) ~> PollEnded(u)

\* C16 witness: a poller that ended after max_attempts provider calls.
C16_Witness ==
    \E u \in UploadIds : poll[u].pc = "exhausted" /\ poll[u].calls = max_attempts

\* The statuses on which the poller takes the provider to have finished the
\* upload (processed, failed), and the terminal statuses of an upload.
FinishedStatuses == {"processed", "failed", "completed", "error"}

AttemptFails(u) ==
    /\ poll[u].pc \in {"check", "update"}
    /\ poll'[u].pc \notin {poll[u].pc, "update", "finished"}
    /\ poll'[u].kept = poll[u].kept

\* C18: an attempt that fails leaves the upload records as they were and the
\* poller in its loop (at the sleep that ends the attempt); and after the
\* sleep of attempt k < max_attempts the poller makes attempt k + 1.
C18_FailedAttemptSkipped ==
    [][\A u \in UploadIds :
          /\ AttemptFails(u) => (uploads' = uploads /\ poll'[u].pc = "sleep")
          /\ (poll[u].pc = "sleep" /\ poll[u].attempt + 1 < max_attempts
                /\ poll'[u] # poll[u])
               => (poll'[u].pc = "check" /\ poll'[u].attempt = poll[u].attempt + 1
                     /\ poll'[u].calls = poll[u].calls)]_vars

\* C18 witness: the poller is in its third attempt after two attempts that
\* failed (no attempt has written the record).
C18_Witness ==
    \E u \in UploadIds :
        /\ poll[u].pc = "update" /\ poll[u].attempt = 2 /\ poll[u].calls = 3
        /\ poll[u].kept = NULL /\ uploads[u].status = "pending"

\* C19: when the poller has used up its attempts, the stored status is the
\* status of its last attempt that did not fail, or pending (the initial
\* status) when every attempt failed; it is not a finishing status.
C19_ExhaustedKeepsStatus ==
    \A u \in UploadIds : poll[u].pc = "exhausted" =>
        /\ uploads[u].status = (IF poll[u].kept = NULL THEN "pending" ELSE poll[u].kept)
        /\ uploads[u].status \notin FinishedStatuses

\* C19 witness: a poller that used up its attempts, the last observed status
\* stored.
C19_Witness ==
    \E u \in UploadIds :
        /\ poll[u].pc = "exhausted" /\ poll[u].kept = "unknown"
        /\ uploads[u].status = "unknown"

\* C20 as stated: a status query for an upload whose stored status is
\* pending, uploaded or processing is answered from a provider status call.
C20_QueryRefreshes ==
    (/\ http.op = "upload_status" /\ http.stage = "response" /\ http.code = 200
     /\ http.status \in {"pending", "uploaded", "processing"})
        => http.derived_from = "provider"

\* The provider statuses the table of check_webhook_batch_status has a row for.
StatusTable ==
    {"PREPARED", "UPLOADED", "EXPORTED", "MATCHED", "PROCESSED", "LINKAGE_FAILURE"}

\* C21: when the provider answers a status check of a batch with a status
\* that is not in the table (an answer without a status included), the
\* status is mapped to processing and the batch is updated to it, with the
\* provider's line count, and answered as processing; the batch is left as
\* it was only when the store update itself raises.
C21_UnknownMapsToProcessing ==
    [][(/\ http.op = "batch_status" /\ http.stage = "update" /\ http' # http
        /\ http.metrika_status \notin StatusTable) =>
          \/ /\ webhook_batches'[http.batch_id].status = "processing"
             /\ webhook_batches'[http.batch_id].processed = http.processed
             /\ http'.stage = "response" /\ http'.status = "processing"
          \/ /\ webhook_batches' = webhook_batches
             /\ http'.stage = "response" /\ http'.status = "error"]_vars

\* C21 witness: a batch stored as processing after the provider answered its
\* status check without a status.
C21_Witness ==
    /\ http.op = "batch_status" /\ http.stage = "response" /\ http.code = 200
    /\ http.metrika_status = "" /\ http.status = "processing"
    /\ webhook_batches[http.batch_id].status = "processing"

\* The webhook of the path does not exist or is switched off, or the header
\* is absent or is not the webhook's secret.
Unauthorised(w, secret) ==
    \/ get_webhook(w) = NoWebhook
    \/ ~get_webhook(w).is_active
    \/ secret = NULL
    \/ secret # get_webhook(w).secret

\* C22: a webhook submission whose webhook does not exist or is switched
\* off, or whose X-Webhook-Secret header is absent or differs from the
\* webhook's secret, is answered 401, 403 or 404, and the step stores no
\* batch row and no items, schedules no processing and sends the provider
\* nothing.
C22_UnauthorisedRejected ==
    [][(NoRequestInFlight /\ http'.op = "webhook") =>
          \A secret \in SecretHeaders, conversions \in ConversionLists :
             (/\ Unauthorised(http'.t, secret)
              /\ receive_offline_conversions(http'.t, secret, conversions)) =>
                 /\ http'.stage = "response" /\ http'.code \in {401, 403, 404}
                 /\ webhook_batches' = webhook_batches
                 /\ webhook_conversions' = webhook_conversions
                 /\ process' = process /\ metrika' = metrika]_vars

\* C22 witness: a submission with another webhook's secret was rejected while
\* the store holds no batch and nothing is scheduled.
C22_Witness ==
    /\ http.op = "webhook" /\ http.stage = "response"
    /\ http.code = 403 /\ http.detail = "Invalid webhook secret"
    /\ webhook_batches = <<>> /\ metrika = <<>>
    /\ \A b \in BatchIds : process[b] = NoProcess

\* C23: an authenticated webhook submission with an empty list is answered
\* 400 "No conversions provided", and the step stores no batch row and no
\* items and schedules no processing.
C23_EmptyListRejected ==
    [][(NoRequestInFlight /\ http'.op = "webhook") =>
          \A secret \in SecretHeaders :
             (/\ ~Unauthorised(http'.t, secret)
              /\ receive_offline_conversions(http'.t, secret, <<>>)) =>
                 /\ http' = Response("webhook", http'.t, 400, "No conversions provided")
                 /\ webhook_batches' = webhook_batches
                 /\ webhook_conversions' = webhook_conversions
                 /\ process' = process]_vars

\* C23 witness: an empty submission was rejected while the store holds no
\* batch and nothing is scheduled.
C23_Witness ==
    /\ http.op = "webhook" /\ http.stage = "response"
    /\ http.code = 400 /\ http.detail = "No conversions provided"
    /\ webhook_batches = <<>>
    /\ \A b \in BatchIds : process[b] = NoProcess

\* C24: a batch-status query authenticated for webhook W on a batch of
\* another webhook is answered with the one 403 answer, which carries nothing
\* of the batch, and the step makes no provider call and leaves the batches
\* as they are; and every status query that goes on to the provider, or is
\* answered with a status, is for a batch of the webhook of its path.
C24_BatchScopedToWebhook ==
    /\ [][(NoRequestInFlight /\ http'.op = "batch_status") =>
            \A secret \in SecretHeaders, b \in 1..Len(webhook_batches) :
               (/\ ~Unauthorised(http'.t, secret)
                /\ webhook_batches[b].webhook_id # http'.t
                /\ get_offline_conversion_status(http'.t, secret, b)) =>
                   /\ http' = Response("batch_status", http'.t, 403,
                                       "Batch does not belong to this webhook")
                   /\ webhook_batches' = webhook_batches
                   /\ status_calls' = status_calls]_vars
    /\ []((http.op = "batch_status" /\ (http.stage \in {"check", "update"}
                                          \/ http.code = 200)) =>
            webhook_batches[http.batch_id].webhook_id = http.t)

\* C24 witness: a query on another webhook's batch was rejected while that
\* batch is uploaded and the provider was never asked for a status.
C24_Witness ==
    /\ http = Response("batch_status", 1, 403, "Batch does not belong to this webhook")
    /\ \E b \in 1..Len(webhook_batches) :
          /\ webhook_batches[b].webhook_id = 2
          /\ webhook_batches[b].status = "uploaded"
    /\ status_calls = {}

\* The identifier columns of a conversion CSV.
IdentifierColumns == {"ClientId", "UserId", "Yclid", "PurchaseId"}

\* C25 as stated: the provider is sent a single conversion, and the store
\* holds an upload record for one, only with exactly one identifier (a
\* request with none, or with more than one, is rejected before anything is
\* sent).
C25_OneIdentifierOrRejected ==
    /\ \A i \in 1..Len(metrika) : metrika[i].task_id = NoTaskId =>
          Cardinality({k \in 1..Len(metrika[i].csv.header) :
                          metrika[i].csv.header[k] \in IdentifierColumns}) = 1
    /\ \A u \in 1..Len(uploads) : uploads[u].task_id = NoTaskId =>
          Cardinality({k \in 1..Len(metrika[uploads[u].metrika_upload_id].csv.header) :
              metrika[uploads[u].metrika_upload_id].csv.header[k] \in IdentifierColumns}) = 1

\* The visits of a list that have a clientId and a dateTime the function
\* parses, in the order of the list.
RECURSIVE ConvertibleVisits(_)
ConvertibleVisits(visits) ==
    IF visits = <<>> THEN <<>>
    ELSE LET v == Head(visits) IN
         (IF "clientId" \in DOMAIN v /\ "dateTime" \in DOMAIN v /\ Parses(v.dateTime)
            THEN <<v>> ELSE <<>>)
         \o ConvertibleVisits(Tail(visits))

\* C26 as stated: format_conversion_csv never raises on any list of visits;
\* it returns the header ClientId,Target,DateTime and one row per visit that
\* has a clientId and a parseable dateTime, in input order, and skips every
\* visit whose dateTime does not parse or that lacks clientId or dateTime.
C26_FormatNeverRaises ==
    fmt.pc \in {"returned", "raised"} =>
        /\ fmt.pc = "returned"
        /\ fmt.out.header = <<"ClientId", "Target", "DateTime">>
        /\ LET kept == ConvertibleVisits(fmt.visits) IN
             /\ Len(fmt.out.rows) = Len(kept)
             /\ \A i \in 1..Len(kept) :
                    /\ fmt.out.rows[i][1] = kept[i].clientId
                    /\ fmt.out.rows[i][2] = fmt.target

\* calculate_level4_visits of job t is over, by return or by exception.
Classified(t) == calc[t].pc \in {"returned", "raised"}

\* C27: a visit with visitDuration >= 180, pageViews >= 5 and slots >= 5 is
\* tier4Plus whatever its device class and whatever the models answer, and
\* is never passed to a model; when the calculation returns, the visit is in
\* the result.
C27_RuleTakesPrecedence ==
    \A t \in TaskIds : Classified(t) /\ calc[t].df # <<>> =>
        \A i \in DOMAIN calc[t].df :
            (calc[t].df[i].visitDuration >= 180 /\ calc[t].df[i].pageViews >= 5
               /\ calc[t].df[i].slots >= 5)
              => /\ calc[t].pred_high[i]
                 /\ calc[t].passed_to[i] = {}
                 /\ calc[t].pc = "returned" =>
                       \E j \in DOMAIN calc[t].sel : calc[t].sel[j].visitId = i

\* C27 witness: a rule-positive desktop visit for which the model answers
\* below its threshold, next to a rule-negative desktop visit that was passed
\* to the model; the calculation returned.
C27_Witness ==
    /\ calc[1].pc = "returned"
    /\ Len(calc[1].df) = 2
    /\ calc[1].df[1].device = 1 /\ calc[1].df[1].slots >= 5
    /\ calc[1].df[1].visitDuration >= 180 /\ calc[1].df[1].pageViews >= 5
    /\ calc[1].proba[1] = 30
    /\ calc[1].passed_to[2] = {"desktop"}
    /\ calc[1].sel # <<>> /\ calc[1].sel[1].visitId = 1

\* C28 as stated: when the calculation returns, every visit is rule-positive
\* or was passed to exactly one device model, never both and never neither,
\* whatever its device class; the result holds each tier4Plus visit once, in
\* input order.
C28_RuleOrOneModel ==
    \A t \in TaskIds : calc[t].pc = "returned" =>
        /\ \A i \in DOMAIN calc[t].df :
               IF rule_mask(calc[t].df[i])
                 THEN calc[t].passed_to[i] = {}
                 ELSE Cardinality(calc[t].passed_to[i]) = 1
        /\ {calc[t].sel[j].visitId : j \in DOMAIN calc[t].sel}
              = {i \in DOMAIN calc[t].df : calc[t].pred_high[i]}
        /\ \A j, k \in DOMAIN calc[t].sel :
               j < k => calc[t].sel[j].visitId < calc[t].sel[k].visitId

\* The device class of a row has a model file and a threshold (from the
\* thresholds file, or from the built-in ones when there is no file).
Available(c, device) ==
    \E k \in DOMAIN DeviceModels :
        /\ DeviceModels[k].code = device
        /\ DeviceModels[k].name \in c.models
        /\ DeviceModels[k].name \in DOMAIN thresholds(c.thresholds_file)

\* C29 as stated: when a rule-negative visit has a device class without a
\* model or without a threshold, the calculation does not return, no result
\* is stored and the job ends failed.
C29_MissingModelIsFatal ==
    \A t \in TaskIds :
        (/\ calc[t].pc \in {"classify", "returned", "raised"}
         /\ \E i \in DOMAIN calc[t].df :
               ~rule_mask(calc[t].df[i]) /\ ~Available(calc[t], calc[t].df[i].device))
          => /\ calc[t].pc # "returned"
             /\ results[t] = NoResult
             /\ run[t].pc = "returned" => tasks[t].status = "failed"

\* The distinct events a visit lists that a hit of the day resolves.
Resolvable(v, hits_raw) ==
    {w \in {v.watchIDs[k] : k \in DOMAIN v.watchIDs} :
        \E h \in DOMAIN hits_raw : hits_raw[h].watchID = w}

\* C30: every visit yields a feature row, also one with no resolvable event;
\* with exactly one resolvable event the row has slots = 1 and slot_range = 0;
\* with at most one, median, mean and std pause are 0; slots is between 0 and
\* the number of distinct resolvable events.
C30_FeatureBounds ==
    \A t \in TaskIds : calc[t].pc \in {"classify", "returned", "raised"}
                          /\ calc[t].visits_raw # <<>> =>
        /\ Len(calc[t].df) = Len(calc[t].visits_raw)
        /\ \A i \in DOMAIN calc[t].visits_raw :
              LET row == calc[t].df[i]
                  events == Cardinality(Resolvable(calc[t].visits_raw[i], calc[t].hits_raw))
              IN /\ row.visitId = calc[t].visits_raw[i].visitID
                 /\ events = 1 => row.slots = 1 /\ row.slot_range = 0
                 /\ events <= 1 => row.median_pause = 0 /\ row.mean_pause = 0
                                      /\ row.std_pause = 0
                 /\ 0 <= row.slots /\ row.slots <= events

\* C30 witness: the feature row of a visit that lists its one resolvable
\* event twice and an event no hit carries.
C30_Witness ==
    /\ calc[1].pc = "classify"
    /\ calc[1].visits_raw # <<>>
    /\ calc[1].visits_raw[1].watchIDs = <<"w1", "w9", "w1">>
    /\ Len(calc[1].hits_raw) = 2
    /\ calc[1].df[1].slots = 1

\* C31 as stated: wait_processed returns only when the provider reported
\* processed for the export, sleeps and polls again on created, processing,
\* processed_with_errors and awaiting_retry, and raises on any other status;
\* the run then aborts and the job ends failed.
C31_WaitUntilProcessed ==
    /\ [][\A t \in TaskIds, src \in Sources :
            (At(t, <<"wait_visits", "wait_hits">>, src) /\ run'[t] # run[t]) =>
                CASE run'[t].pc = After(run[t].pc) ->
                        exports'[t][src].settled = "processed"
                  [] run'[t].pc \in {"sleep_visits", "sleep_hits"} ->
                        exports'[t][src].settled \in Continuable \cup {NULL}
                  [] OTHER ->
                        /\ run'[t].pc = "except"
                        /\ run'[t].exc = "RuntimeError: bad status"
                             <=> exports'[t][src].settled
                                    \notin Continuable \cup {"processed", NULL}]_vars
    /\ [](\A t \in TaskIds :
            (/\ run[t].pc \in {"returned", "raised"}
             /\ \E src \in Sources :
                    exports[t][src].settled \notin Continuable \cup {"processed", NULL})
              => tasks[t].status = "failed")

\* The statuses of a webhook batch that are final.
BatchTerminal == {"completed", "error"}

\* C32 as stated: once a webhook batch is stored as completed or error its
\* stored status never changes again, however process_webhook_batch and the
\* status queries for it interleave.
C32_TerminalBatchIsFinal ==
    [][\A b \in DOMAIN webhook_batches :
          webhook_batches[b].status \in BatchTerminal
            => webhook_batches'[b].status = webhook_batches[b].status]_vars

\* C33 as stated: when the provider eventually and for good reports
\* PROCESSED for the upload of a batch and clients keep querying its status,
\* a batch stored as uploaded eventually is stored as completed.
C33_UploadedBecomesCompleted ==
    \A b \in BatchIds :
        <>[](b \in DOMAIN webhook_batches
               /\ webhook_batches[b].metrika_upload_id # NoUploadId
               /\ uploadings[webhook_batches[b].metrika_upload_id] = "PROCESSED")
          => ((get_webhook_batch(b).status = "uploaded")
                ~> (get_webhook_batch(b).status = "completed"))

\* The positions of run_task at which an export is being polled, and those
\* at or after its download.
Polling(src) == IF src = "visits" THEN {"wait_visits", "sleep_visits"}
                                  ELSE {"wait_hits", "sleep_hits"}
Downloading == {"download_visits", "download_hits"}

\* C34 as stated: in a run both exports are created before either is polled,
\* an export is downloaded only after its poll returned processed, and each
\* export is cleaned exactly once, only after both downloads and after
\* feature extraction and classification are over.
C34_PipelineOrder ==
    /\ [](\A t \in TaskIds, src \in Sources :
            /\ run[t].pc \in Polling(src) => \A s \in Sources : exports[t][s].made
            /\ run[t].pc \in Downloading => exports[t][src].settled = "processed"
            /\ run[t].pc \in {"returned", "raised"} /\ exports[t][src].made
                  => exports[t][src].cleaned)
    /\ [][\A t \in TaskIds, src \in Sources :
            (exports'[t][src].cleaned /\ ~exports[t][src].cleaned)
              => /\ run[t].pc \notin Downloading
                 /\ run[t].result.present]_vars

\* C37 as stated: when a job is done or failed, every export its run created
\* on the provider has been cleaned.
C37_ExportsCleaned ==
    \A t \in TaskIds : (Created(t) /\ tasks[t].status \in Terminal) =>
        \A src \in Sources : exports[t][src].made => exports[t][src].cleaned


\* The pages a client gets that asks for limit rows from offset on and goes
\* on by limit while has_more is true, one after the other.
RECURSIVE Pages(_, _, _, _)
Pages(task, result, limit, offset) ==
    LET page == get_task_result(task, result, limit, offset) IN
      page.data \o (IF page.has_more THEN Pages(task, result, limit, offset + limit)
                                     ELSE <<>>)

\* C35: a result request answered while the job is done with stored result
\* R returns the rows R[offset .. offset+limit) with total = |R| and
\* has_more = (offset + limit < |R|); the pages from offset 0 in steps of
\* limit give R, each row once and in order; an offset >= |R| gives an empty
\* page with has_more false.
C35_Pagination ==
    [][(/\ http.op = "result" /\ http.stage = "get_result"
        /\ http'.op = "result" /\ http'.stage = "response"
        /\ tasks[http.t].status = "done")
       => LET R == results[http.t].rows
              page == http'.body
              n == IF page.offset >= Len(R) THEN 0
                   ELSE IF page.offset + page.limit < Len(R) THEN page.limit
                   ELSE Len(R) - page.offset
          IN /\ page.code = 200
             /\ page.limit = http.limit /\ page.offset = http.offset
             /\ page.data = [i \in 1..n |-> R[page.offset + i]]
             /\ page.total = Len(R)
             /\ page.has_more = (page.offset + page.limit < Len(R))
             /\ Pages(tasks[http.t], results[http.t], page.limit, 0) = R
             /\ page.offset >= Len(R) => page.data = <<>> /\ ~page.has_more]_vars

\* A page of a done job that is not the last one is returned.
C35_Witness ==
    /\ http.op = "result" /\ http.stage = "response"
    /\ tasks[http.t].status = "done"
    /\ http.body.code = 200 /\ http.body.has_more /\ http.body.data # <<>>


\* A request of send_bulk_conversions or send_single_conversion is at the
\* call of send_conversions_to_metrika.
Sending ==
    \/ http.op = "bulk" /\ http.stage = "send"
    \/ NoRequestInFlight /\ http'.op = "single" /\ http' # http

\* C36: every upload record is the record of a payload the provider
\* accepted, and of one only; when the provider rejects or fails the
\* submission of send_bulk_conversions or send_single_conversion, no upload
\* record is created, no poller is scheduled and every store is unchanged.
C36_UploadsAreAccepted ==
    /\ [](/\ \A u \in DOMAIN uploads :
               /\ uploads[u].metrika_upload_id \in DOMAIN metrika
               /\ metrika[uploads[u].metrika_upload_id].task_id = uploads[u].task_id
               /\ \A v \in DOMAIN uploads :
                    uploads[v].metrika_upload_id = uploads[u].metrika_upload_id => v = u
          /\ pollers \subseteq DOMAIN uploads)
    /\ [][(Sending /\ http'.stage = "response" /\ http'.code # 200)
            => /\ uploads' = uploads /\ pollers' = pollers /\ poll' = poll
               /\ metrika' = metrika /\ tasks' = tasks /\ results' = results]_vars

\* The provider has rejected the bulk submission of a stored result, and
\* there is no upload record and no poller.
C36_Witness ==
    /\ http.op = "bulk" /\ http.stage = "response" /\ http.code = 400
    /\ http.detail = "Metrika API error"
    /\ results[http.t].present
    /\ uploads = <<>> /\ pollers = {}


\* C38 as stated: the conversions counted in accepted_count and in the total
\* of a batch are the data rows of the CSV payload uploaded for the batch,
\* one row each and in order; none is left out.
C38_EveryAcceptedConversionUploaded ==
    /\ \A b \in DOMAIN webhook_batches :
         webhook_batches[b].metrika_upload_id # NoUploadId =>
           LET rows == metrika[webhook_batches[b].metrika_upload_id].csv.rows
               items == get_webhook_conversions(b)
           IN /\ Len(rows) = webhook_batches[b].total
              /\ Len(rows) = Len(items)
              /\ \A i \in 1..Len(rows) : rows[i][2] = items[i].target
    /\ (http.op = "webhook" /\ http.stage = "response" /\ http.code = 200)
         => http.accepted_count = webhook_batches[http.batch_id].total


\* C39 as stated: a result request answered while the job is failed gets 202
\* 'Task not finished', the answer of a running job, never rows and never
\* 'Result not found'; and a failed job and its result are never changed, so
\* the answer stays the same.
C39_FailedIsNotFinished ==
    /\ [][(/\ http.op = "result" /\ http.stage = "get_result"
           /\ http'.op = "result" /\ http'.stage = "response"
           /\ tasks[http.t].status = "failed")
          => /\ http'.code = 202 /\ http'.detail = "Task not finished"
             /\ http'.body = get_task_result([status |-> "running"], NoResult,
                                             http.limit, http.offset)]_vars
    /\ [][\A t \in TaskIds : tasks[t].status = "failed"
            => tasks'[t] = tasks[t] /\ results'[t] = results[t]]_vars


\* C40 as stated: when the exports hold no visit, calculate_level4_visits
\* returns the empty list, and the job ends done with the empty list stored
\* as its result.
C40_NoVisitsEndsDone ==
    \A t \in TaskIds :
      (/\ calc[t].pc \in {"returned", "raised"}
       /\ calc[t].visits_raw = <<>> /\ calc[t].df = <<>>)
      => /\ calc[t].pc = "returned" /\ calc[t].sel = <<>>
         /\ tasks[t].status \in Terminal
              => tasks[t].status = "done" /\ results[t] = Stored(<<>>)

====
